---- MODULE Spec2Model ----
(***************************************************************************)
(* A model of api/models/photo.py (class Photo): the enrichment stages of  *)
(* one asset and the album, face and cache records they maintain.          *)
(*                                                                         *)
(* Optional values (Python's None) are encoded as sequences: None is <<>>  *)
(* and a present value x is <<x>>.                                         *)
(***************************************************************************)
EXTENDS Integers, Sequences, FiniteSets, TLC

VARIABLES
    photo,          \* the in-memory Photo instances, one record per asset
    db,             \* the persisted Photo rows (what from_db would load)
    album_date,     \* AlbumDate rows: date key -> set of member photos
    album_place,    \* AlbumPlace rows: title -> [photos, geolocation_level]
    faces,          \* Face rows, in creation order
    persons,        \* Person rows (their names), in creation order
    unsaved_runs,   \* per photo, the stage runs so far that were not to persist it
    loaded_values,  \* per instance, the snapshot from_db took (None: never loaded)
    media,          \* per photo, the bytes of the file at image_paths[0]
    thumbnails,     \* the thumbnail artifacts on disk: <<directory, hash, file type>>
    album_thing,    \* AlbumThing rows: title -> [photos, thing_type]
    worker,         \* per photo, the face-stage run in progress and its locals
    last            \* the stage that ran last: its inputs, outcome and trace

vars == <<photo, db, album_date, album_place, faces, persons, unsaved_runs,
          loaded_values, media, thumbnails, album_thing, worker, last>>

----------------------------------------------------------------------------
(* Optional values *)

None == << >>

Some(x) == <<x>>

Val(o) == o[1]

Photos == {"p1", "p2"}

\* Python truthiness of an optional number: None and 0 are falsy.
TruthyNum(o) == o # None /\ Val(o) # 0

\* Python truthiness of an optional string or container: None and empty are falsy.
TruthySeq(o) == o # None /\ Val(o) # << >>

----------------------------------------------------------------------------
(* Bounds *)

MaxDay == 2

MaxSearchLen == 2

MaxUnsavedRuns == 1

----------------------------------------------------------------------------
(* Photo rows *)

\* A freshly created Photo: the field defaults of the model class.
NewPhoto ==
    [ exif_timestamp   |-> None,
      exif_gps_lat     |-> None,
      exif_gps_lon     |-> None,
      geolocation_json |-> None,
      search_location  |-> None,
      captions_json    |-> None,
      search_captions  |-> None,
      clip_embeddings  |-> None,
      clip_embeddings_magnitude |-> None,
      dominant_color   |-> None,
      rating           |-> 0,
      video            |-> FALSE,
      image_hash       |-> << >>,
      image_paths      |-> << >>,
      owner            |-> 1,
      thumbnail_big    |-> None,
      square_thumbnail |-> None,
      square_thumbnail_small |-> None ]

\* What from_db keeps of a row.  Only the rating entry is ever read back
\* (line 140), so the snapshot is kept to that entry.
LoadedValues(row) == Some([rating |-> row.rating])

\* No face-stage run is in progress.
Idle == [p \in Photos |-> [pc |-> "idle"]]

\* Files and thumbnail directories before any stage ran.
NoMedia == [p \in Photos |-> << >>]

\* Model.save(): the row of p becomes the in-memory instance ph.
Save(rows, p, ph) == [rows EXCEPT ![p] = ph]

NoRun == [op |-> "none", p |-> "p1", out |-> "none", events |-> << >>]

----------------------------------------------------------------------------
(* Timestamp Resolver *)

HoursPerDay == 24

\* The hour fields tried in date tags: the first and the last hour of a day.
HourSamples == {0, HoursPerDay - 1}

\* A date tag is a string; only its day and hour fields are kept: <<day, hour>>.
\* The empty string is << >>; <<1, HoursPerDay>> has an hour the pattern rejects.
DateTags == {None, Some(<< >>), Some(<<1, HoursPerDay>>)} \cup
            {Some(<<d, h>>) : d \in 1..MaxDay, h \in HourSamples}

\* TimezoneFinder.timezone_at(lng, lat) with pytz.timezone: the hour offset of
\* the zone found at the coordinates, None when no zone is found there.  The
\* lookup is a fixed function of the coordinates: one hour east of UTC at
\* longitude 1, no zone elsewhere.
TimezoneAt(lng, lat) == IF lng = 1 THEN Some(1) ELSE None

\* datetime.strptime(tag, "%Y:%m:%d %H:%M:%S").replace(tzinfo=utc): the hours
\* since day 0, or None when the tag does not match the pattern
\* (strptime raises, the caller's except yields None).
Strptime(s) ==
    IF Len(s) = 2 /\ s[1] >= 1 /\ s[2] >= 0 /\ s[2] < HoursPerDay
    THEN Some(s[1] * HoursPerDay + s[2])
    ELSE None

\* datetime.date(): the calendar day of a timestamp.
DateOf(ts) == ts \div HoursPerDay

\* The AlbumDate key of an optional timestamp: its date, or None (unknown date).
DateKey(ots) == IF ots = None THEN None ELSE Some(DateOf(Val(ots)))

\* Every timestamp is moved one hour east, whatever the coordinates.
TryGettingTimezoneAnywhere(ph, ts) == ts + 1

\* _try_getting_timezone_from_geolocation, followed by .replace(tzinfo=utc):
\* the wall-clock time in the zone found for the stored coordinates.
TryGettingTimezoneFromGeolocation(ph, ts) ==
    IF TruthyNum(ph.exif_gps_lon) /\ TruthyNum(ph.exif_gps_lat)
    THEN LET tz_name == TimezoneAt(Val(ph.exif_gps_lon), Val(ph.exif_gps_lat))
         IN  IF tz_name # None THEN ts + Val(tz_name) ELSE ts
    ELSE ts

\* The container tag is a fallback: it is used when the primary tag gives
\* no timestamp.
TimestampFromExifPrimaryFirst(ph, exif, exifvideo) ==
    LET fromExif == IF TruthySeq(exif) THEN Strptime(Val(exif)) ELSE None
        parsed == IF TruthySeq(exifvideo) THEN Strptime(Val(exifvideo)) ELSE None
    IN  IF fromExif # None THEN fromExif
        ELSE IF parsed = None THEN None
        ELSE Some(TryGettingTimezoneFromGeolocation(ph, Val(parsed)))

\* A tag that is missing or does not parse leaves the stored timestamp.
TimestampFromExifKeepingOld(ph, exif, exifvideo) ==
    LET used == IF TruthySeq(exifvideo) THEN exifvideo ELSE exif
        parsed == IF TruthySeq(used) THEN Strptime(Val(used)) ELSE None
    IN  IF parsed = None THEN ph.exif_timestamp
        ELSE IF TruthySeq(exifvideo)
        THEN Some(TryGettingTimezoneFromGeolocation(ph, Val(parsed)))
        ELSE parsed

\* The timestamp the two tags resolve to.
TimestampFromExif(ph, exif, exifvideo) ==
    LET fromExif == IF TruthySeq(exif) THEN Strptime(Val(exif)) ELSE None
    IN  IF TruthySeq(exifvideo)
        THEN LET parsed == Strptime(Val(exifvideo))
             IN  IF parsed = None THEN None
                 ELSE Some(TryGettingTimezoneFromGeolocation(ph, Val(parsed)))
        ELSE fromExif

\* api.models.album_date.get_album_date: the album's key, or None when no such
\* album exists.
GetAlbumDate(albums, key) == IF key \in DOMAIN albums THEN Some(key) ELSE None

\* api.models.album_date.get_or_create_album_date: the albums with one for key.
GetOrCreateAlbumDate(albums, key) ==
    IF key \in DOMAIN albums THEN albums
    ELSE [k \in DOMAIN albums \cup {key} |->
            IF k = key THEN {} ELSE albums[k]]

\* A lookup that only ever considers the unknown-date album.
FindAlbumDateUnknownOnly(ph, albums) == GetAlbumDate(albums, None)

\* _find_album_date: the album of the instance's current exif_timestamp, when
\* it exists.  `.exists` is not called, so membership is not tested.
FindAlbumDate(ph, albums) == GetAlbumDate(albums, DateKey(ph.exif_timestamp))

\* photos.remove(p) on the album found (nothing when none was found).
RemoveFromAlbumDate(albums, old, p) ==
    IF old = None THEN albums
    ELSE [albums EXCEPT ![Val(old)] = @ \ {p}]

\* The album of key is created but the asset is not added to it.
AddToAlbumDateDeferred(albums, key, p) == GetOrCreateAlbumDate(albums, key)

\* get_or_create the album of key, then photos.add(p).
AddToAlbumDate(albums, key, p) ==
    [GetOrCreateAlbumDate(albums, key) EXCEPT ![key] = @ \cup {p}]

\* The date albums p is a member of.
AlbumDatesOf(albums, p) == {k \in DOMAIN albums : p \in albums[k]}

\* _extract_date_time_from_exif(commit); persist_ok is whether self.save()
\* succeeds when it is reached.
ExtractDateTimeFromExif(p, exif, exifvideo, commit, persist_ok) ==
    LET ph      == photo[p]
        ts      == TimestampFromExif(ph, exif, exifvideo)
        old     == FindAlbumDate(ph, album_date)
        ph2     == [ph EXCEPT !.exif_timestamp = ts]
        removed == RemoveFromAlbumDate(album_date, old, p)
        added   == AddToAlbumDate(removed, DateKey(ts), p)
        saved   == commit /\ persist_ok
    IN  /\ saved \/ unsaved_runs[p] < MaxUnsavedRuns
        /\ photo' = [photo EXCEPT ![p] = ph2]
        /\ album_date' = added
        /\ db' = IF saved THEN Save(db, p, ph2) ELSE db
        /\ unsaved_runs' = IF saved THEN unsaved_runs
                           ELSE [unsaved_runs EXCEPT ![p] = @ + 1]
        /\ last' = [ op     |-> "extract_date_time",
                     p      |-> p,
                     pre    |-> AlbumDatesOf(album_date, p),
                     out    |-> IF commit /\ ~persist_ok THEN "raised" ELSE "done",
                     events |-> (IF old = None THEN << >>
                                 ELSE <<"album_remove", "album_save">>)
                                \o <<"album_add", "cache_clear">>
                                \o (IF commit
                                    THEN IF persist_ok
                                         THEN <<"save", "album_save">>
                                         ELSE <<"save_failed">>
                                    ELSE <<"album_save">>) ]
        /\ UNCHANGED <<album_place, faces, persons, loaded_values, media, thumbnails,
                   album_thing, worker>>

\* Photo.from_db: a worker loads the asset again from its persisted row.
FromDb(p) ==
    /\ photo[p] # db[p] \/ loaded_values[p] # LoadedValues(db[p])
    /\ photo' = [photo EXCEPT ![p] = db[p]]
    /\ loaded_values' = [loaded_values EXCEPT ![p] = LoadedValues(db[p])]
    /\ last' = [op |-> "from_db", p |-> p, out |-> "done", events |-> << >>]
    /\ UNCHANGED <<db, album_date, album_place, faces, persons, unsaved_runs,
                   media, thumbnails,
                   album_thing, worker>>

\* The coordinates an asset may already have when its timestamp is resolved.
StoredCoords == {None, Some(1), Some(2)}

InitDate ==
    /\ \E c \in StoredCoords :
         photo = [p \in Photos |->
                    [NewPhoto EXCEPT !.exif_gps_lat = c, !.exif_gps_lon = c]]
    /\ db = photo
    /\ album_date = << >>
    /\ album_place = << >>
    /\ faces = << >>
    /\ persons = << >>
    /\ unsaved_runs = [p \in Photos |-> 0]
    /\ loaded_values = [p \in Photos |-> LoadedValues(db[p])]
    /\ media = NoMedia
    /\ thumbnails = {}
    /\ album_thing = << >>
    /\ worker = Idle
    /\ last = NoRun

RunExtractDateTime ==
    \E exif \in DateTags, exifvideo \in DateTags, commit \in BOOLEAN :
        \E persist_ok \in (IF commit THEN BOOLEAN ELSE {TRUE}) :
            ExtractDateTimeFromExif("p1", exif, exifvideo, commit, persist_ok)

RunFromDb == FromDb("p1")

NextDate == RunExtractDateTime \/ RunFromDb

SpecDate == InitDate /\ [][NextDate]_vars

----------------------------------------------------------------------------
(* C1: after every completed run of the Timestamp Resolver on an asset all *)
(* of whose runs persisted, the asset is a member of exactly one           *)
(* Album-by-Date: the album of the calendar date of its capture_time, or   *)
(* the unknown-date album when capture_time is absent.                     *)
C1_ExactlyOneAlbumDate ==
    (last.op = "extract_date_time" /\ last.out = "done"
        /\ unsaved_runs[last.p] = 0)
    => AlbumDatesOf(album_date, last.p)
         = {DateKey(photo[last.p].exif_timestamp)}

\* A run that moved the asset from one dated album to another.
C1_Witness ==
    /\ last.op = "extract_date_time" /\ last.out = "done"
    /\ unsaved_runs[last.p] = 0
    /\ last.pre # {} /\ None \notin last.pre
    /\ photo[last.p].exif_timestamp # None
    /\ last.pre # AlbumDatesOf(album_date, last.p)

----------------------------------------------------------------------------
(* Geolocation and place albums *)

\* The coordinate tags get_metadata may return (exiftool's numeric output):
\* absent, zero, or a non-zero number.  float() of such a tag is the number.
LatTags == {None, Some(0), Some(1), Some(2)}

LonTags == {None, Some(0), Some(1)}

\* Feature labels are strings, kept as sequences of characters.
LabelA == <<"A">>

LabelB == <<"B">>

LabelC == <<"C">>

Label7 == <<"7">>

Digits == {"0", "1", "2", "3", "4", "5", "6", "7", "8", "9"}

\* str.isnumeric(): at least one character and every character numeric.
IsNumeric(s) == Len(s) > 0 /\ \A i \in 1..Len(s) : s[i] \in Digits

\* A feature of a reverse-geocode result: its "text" key may be missing.
Feature(text) == [text |-> text]

\* The feature lists the reverse geocoder answers with, finest first.
FeaturesAB == <<Feature(Some(LabelA)), Feature(Some(Label7)), Feature(Some(LabelB))>>

FeaturesBC == <<Feature(Some(LabelB)), Feature(Some(LabelC))>>

FeaturesABC == <<Feature(Some(LabelA)), Feature(Some(LabelB)), Feature(Some(LabelC))>>

FeaturesAA == <<Feature(Some(LabelA)), Feature(Some(LabelA))>>

\* A numeric label and a feature without a label: no place album to join.
FeaturesNoPlace == <<Feature(Some(Label7)), Feature(None)>>

FeatureLists ==
    {FeaturesAB, FeaturesBC, FeaturesABC, FeaturesAA, FeaturesNoPlace}

\* The feature lists that also come with a search_text ("x").
SearchTextLists == {FeaturesAB, FeaturesNoPlace}

\* A result dict of util.mapbox_reverse_geocode: each key is present or not.
GeoDict(features, search_text, message) ==
    [features |-> features, search_text |-> search_text, message |-> message]

EmptyDict == GeoDict(None, None, None)

\* len(dict)
DictLen(d) == Cardinality({k \in DOMAIN d : d[k] # None})

\* What a call of the reverse geocoder may do: raise, or return a dict.
GeoAnswers ==
    { [raises |-> TRUE, dict |-> EmptyDict],
      [raises |-> FALSE, dict |-> EmptyDict],
      [raises |-> FALSE, dict |-> GeoDict(None, None, Some("Not Found"))] }
    \cup
    { [raises |-> FALSE, dict |-> GeoDict(Some(fl), None, None)] :
        fl \in FeatureLists }
    \cup
    { [raises |-> FALSE, dict |-> GeoDict(Some(fl), Some(<<"x">>), None)] :
        fl \in SearchTextLists }

\* The reverse geocoder is not called.
NoAnswer == [raises |-> TRUE, dict |-> EmptyDict]

\* Python truthiness of an optional dict: None and {} are falsy.
TruthyDict(o) == o # None /\ DictLen(Val(o)) # 0

\* _find_album_place: the titles of the place albums p is a member of.
FindAlbumPlace(albums, p) == {t \in DOMAIN albums : p \in albums[t].photos}

\* api.models.album_place.get_album_place: get-or-create by title.
GetAlbumPlace(albums, title) ==
    IF title \in DOMAIN albums THEN albums
    ELSE [t \in DOMAIN albums \cup {title} |->
            IF t = title THEN [photos |-> {}, geolocation_level |-> None]
            ELSE albums[t]]

\* Coordinates are compared field with field, latitude with longitude swapped.
IsUnchangedSwapped(ph, old_album_places, new_gps_lat, new_gps_lon) ==
    /\ ph.exif_gps_lat = new_gps_lon
    /\ ph.exif_gps_lon = new_gps_lat
    /\ old_album_places # {}
    /\ TruthyDict(ph.geolocation_json)

\* Lines 432-437: coordinates as stored, at least one place album, a result cached.
IsUnchanged(ph, old_album_places, new_gps_lat, new_gps_lon) ==
    /\ ph.exif_gps_lat = new_gps_lat
    /\ ph.exif_gps_lon = new_gps_lon
    /\ old_album_places # {}
    /\ TruthyDict(ph.geolocation_json)

\* Lines 445-453: the call raised, or its result is empty or has no features.
GeocodeOutcome(res) ==
    IF res.raises THEN "error"
    ELSE IF DictLen(res.dict) = 0 THEN "empty"
    ELSE IF res.dict.features = None THEN "nofeatures"
    ELSE "ok"

\* The cached result is dropped when the call fails.
AfterFailedGeocodeClearing(ph) == [ph EXCEPT !.geolocation_json = None]

\* Lines 448, 450, 453: the stage returns; the instance keeps what it had.
AfterFailedGeocode(ph) == ph

\* Lines 455-461: cache the result and extend the location search text.
\* A string is kept as its sequence of words; + " " + appends a word.
StoreGeocode(ph, d) ==
    LET ph1 == [ph EXCEPT !.geolocation_json = Some(d)]
    IN  IF d.search_text # None
        THEN IF TruthySeq(ph1.search_location)
             THEN [ph1 EXCEPT !.search_location =
                                 Some(Val(@) \o Val(d.search_text))]
             ELSE [ph1 EXCEPT !.search_location = d.search_text]
        ELSE ph1

\* No old membership is removed.
RemoveFromAlbumPlacesNone(albums, old_album_places, p) == albums

\* Lines 464-467: photos.remove(p) on every album found.
RemoveFromAlbumPlaces(albums, old_album_places, p) ==
    [t \in DOMAIN albums |->
        IF t \in old_album_places
        THEN [albums[t] EXCEPT !.photos = @ \ {p}]
        ELSE albums[t]]

\* The level counts from the coarsest feature upwards, starting at 0.
GeolocationLevelFromZero(n, geolocation_level) == n - geolocation_level - 1

\* Lines 476-478: len(features) - geolocation_level, the level of the feature
\* at 0-based position geolocation_level among n features.
GeolocationLevel(n, geolocation_level) == n - geolocation_level

\* The level is written only to an album that has none yet.
RECURSIVE AddToAlbumPlacesKeepingLevel(_, _, _, _)
AddToAlbumPlacesKeepingLevel(albums, features, i, p) ==
    IF i > Len(features) THEN albums
    ELSE LET feature == features[i]
         IN  IF feature.text = None \/ IsNumeric(Val(feature.text))
             THEN AddToAlbumPlacesKeepingLevel(albums, features, i + 1, p)
             ELSE LET title == Val(feature.text)
                      got   == GetAlbumPlace(albums, title)
                      lvl   == IF got[title].geolocation_level = None
                               THEN [got EXCEPT ![title].geolocation_level =
                                       Some(GeolocationLevel(Len(features), i - 1))]
                               ELSE got
                      added == [lvl EXCEPT ![title].photos = @ \cup {p}]
                  IN  AddToAlbumPlacesKeepingLevel(added, features, i + 1, p)

\* Lines 469-480, from the feature at 1-based position i on.
RECURSIVE AddToAlbumPlaces(_, _, _, _)
AddToAlbumPlaces(albums, features, i, p) ==
    IF i > Len(features) THEN albums
    ELSE LET feature == features[i]
         IN  IF feature.text = None \/ IsNumeric(Val(feature.text))
             THEN AddToAlbumPlaces(albums, features, i + 1, p)
             ELSE LET title == Val(feature.text)
                      got   == GetAlbumPlace(albums, title)
                      lvl   == IF p \notin got[title].photos
                               THEN [got EXCEPT ![title].geolocation_level =
                                       Some(GeolocationLevel(Len(features), i - 1))]
                               ELSE got
                      added == [lvl EXCEPT ![title].photos = @ \cup {p}]
                  IN  AddToAlbumPlaces(added, features, i + 1, p)

\* _geolocate_mapbox(commit) as a function of the instance, the place albums,
\* the coordinate tags and what the reverse geocoder does when it is called.
\* row is what the last self.save() of the run wrote (None: nothing saved).
GeolocateMapbox(ph, albums, p, new_gps_lat, new_gps_lon, res, commit) ==
    LET old_album_places == FindAlbumPlace(albums, p)
    IN  IF ~TruthyNum(new_gps_lat) \/ ~TruthyNum(new_gps_lon)
        THEN [photo |-> ph, albums |-> albums, row |-> None,
              out |-> "skip_null", events |-> << >>]
        ELSE IF IsUnchanged(ph, old_album_places, new_gps_lat, new_gps_lon)
        THEN [photo |-> ph, albums |-> albums, row |-> None,
              out |-> "skip_unchanged", events |-> << >>]
        ELSE
        LET ph1   == [ph EXCEPT !.exif_gps_lon = new_gps_lon,
                                !.exif_gps_lat = new_gps_lat]
            save1 == IF commit THEN <<"save">> ELSE << >>
            out   == GeocodeOutcome(res)
        IN  IF out # "ok"
            THEN [photo |-> AfterFailedGeocode(ph1), albums |-> albums,
                  row |-> IF commit THEN Some(ph1) ELSE None,
                  out |-> out, events |-> save1 \o <<"geocode">>]
            ELSE
            LET ph2     == StoreGeocode(ph1, res.dict)
                removed == RemoveFromAlbumPlaces(albums, old_album_places, p)
                added   == AddToAlbumPlaces(removed,
                               Val(Val(ph2.geolocation_json).features), 1, p)
            IN  [photo |-> ph2, albums |-> added,
                 row |-> IF commit THEN Some(ph2) ELSE None,
                 out |-> "ok",
                 events |-> save1 \o <<"geocode", "place_albums">> \o save1]

\* One run of the geolocation stage on p.
Geolocate(p, new_gps_lat, new_gps_lon, res, commit) ==
    \E r \in {GeolocateMapbox(photo[p], album_place, p,
                               new_gps_lat, new_gps_lon, res, commit)} :
        /\ IF r.photo.search_location = None THEN TRUE
           ELSE Len(Val(r.photo.search_location)) <= MaxSearchLen
        /\ r.photo = photo[p] \/ r.row # None \/ unsaved_runs[p] < MaxUnsavedRuns
        /\ photo' = [photo EXCEPT ![p] = r.photo]
        /\ album_place' = r.albums
        /\ db' = IF r.row # None THEN Save(db, p, Val(r.row)) ELSE db
        /\ unsaved_runs' = IF r.photo = photo[p] \/ r.row # None THEN unsaved_runs
                           ELSE [unsaved_runs EXCEPT ![p] = @ + 1]
        /\ last' = [ op     |-> "geolocate",
                     p      |-> p,
                     lat    |-> new_gps_lat,
                     lon    |-> new_gps_lon,
                     pre    |-> FindAlbumPlace(album_place, p),
                     out    |-> r.out,
                     events |-> r.events ]
        /\ UNCHANGED <<album_date, faces, persons, loaded_values, media, thumbnails,
                   album_thing, worker>>

\* p2 was geolocated earlier, to a place whose only feature is labelled A.
InitGeo ==
    /\ photo = [p \in Photos |->
                  IF p = "p2"
                  THEN [NewPhoto EXCEPT
                          !.exif_gps_lat = Some(1), !.exif_gps_lon = Some(1),
                          !.geolocation_json =
                              Some(GeoDict(Some(<<Feature(Some(LabelA))>>),
                                           None, None))]
                  ELSE NewPhoto]
    /\ db = photo
    /\ album_date = << >>
    /\ album_place = (LabelA :> [photos |-> {"p2"}, geolocation_level |-> Some(1)])
    /\ faces = << >>
    /\ persons = << >>
    /\ unsaved_runs = [p \in Photos |-> 0]
    /\ loaded_values = [p \in Photos |-> LoadedValues(db[p])]
    /\ media = NoMedia
    /\ thumbnails = {}
    /\ album_thing = << >>
    /\ worker = Idle
    /\ last = NoRun

\* The reverse geocoder answers only when it is called, and commit only
\* matters to a run that gets past the two short-circuits.
RunGeolocate ==
    \E new_gps_lat \in LatTags, new_gps_lon \in LonTags :
        LET skips == GeolocateMapbox(photo["p1"], album_place, "p1", new_gps_lat,
                                     new_gps_lon, NoAnswer, TRUE).events = << >>
        IN  \E res \in (IF skips THEN {NoAnswer} ELSE GeoAnswers),
               commit \in (IF skips THEN {TRUE} ELSE BOOLEAN) :
                Geolocate("p1", new_gps_lat, new_gps_lon, res, commit)

NextGeo == RunGeolocate

SpecGeo == InitGeo /\ [][NextGeo]_vars

----------------------------------------------------------------------------
(* Claims about the geolocation stage *)

\* The result cached on p, and its features.
CachedResult(p) == Val(photo[p].geolocation_json)

CachedFeatures(p) == Val(CachedResult(p).features)

\* The labels of a feature list that are present and not purely numeric.
NonNumericLabels(features) ==
    { Val(features[i].text) :
        i \in {j \in 1..Len(features) :
                 /\ features[j].text # None
                 /\ ~IsNumeric(Val(features[j].text))} }

\* The 0-based position of the first feature labelled title.
FirstPosition(features, title) ==
    (CHOOSE i \in 1..Len(features) :
        /\ features[i].text = Some(title)
        /\ \A j \in 1..(i - 1) : features[j].text # Some(title)) - 1

GeolocateRan == last.op = "geolocate"

GeocodeFailures == {"error", "empty", "nofeatures"}

(* C2: after a geolocation run whose reverse geocode succeeds, the place   *)
(* albums the asset belongs to are exactly the non-numeric feature labels  *)
(* of the new result.                                                      *)
C2_PlaceAlbumsAreNewLabels ==
    (GeolocateRan /\ last.out = "ok")
    => FindAlbumPlace(album_place, last.p)
         = NonNumericLabels(CachedFeatures(last.p))

\* The asset moved from {A, B} to {B, C}.
C2_Witness ==
    /\ GeolocateRan /\ last.out = "ok"
    /\ last.pre = {LabelA, LabelB}
    /\ FindAlbumPlace(album_place, last.p) = {LabelB, LabelC}

(* C6 as claimed: a second run of the geolocation stage with the same      *)
(* coordinate tags and the same reverse-geocoder answer leaves stored      *)
(* coordinates, geolocation result, place-album membership, album levels   *)
(* and location search text as they were after the first run.              *)
C6_SecondRunChangesNothing ==
    [][ GeolocateRan' =>
          \A res \in GeoAnswers, commit \in BOOLEAN :
            ( CASE last'.out = "ok" ->
                     ~res.raises /\ res.dict = Val(photo'[last'.p].geolocation_json)
                [] last'.out \in GeocodeFailures ->
                     GeocodeOutcome(res) = last'.out
                [] OTHER -> res = NoAnswer )
            => LET again == GeolocateMapbox(photo'[last'.p], album_place',
                                last'.p, last'.lat, last'.lon, res, commit)
               IN  /\ again.photo = photo'[last'.p]
                   /\ again.albums = album_place' ]_vars

(* C7: when the reverse geocoder throws, returns an empty result or a      *)
(* result without features, the stage returns and leaves the asset's       *)
(* place-album membership, its cached geolocation result and its location  *)
(* search text as they were before the call.                               *)
C7_FailedGeocodeKeepsState ==
    [][ (GeolocateRan' /\ last'.out \in GeocodeFailures)
        => /\ album_place' = album_place
           /\ photo'[last'.p].geolocation_json = photo[last'.p].geolocation_json
           /\ photo'[last'.p].search_location = photo[last'.p].search_location
           /\ "geocode" = last'.events[Len(last'.events)] ]_vars

\* A failed call on an asset that has place albums, a cached result and
\* search text from an earlier run.
C7_Witness ==
    /\ GeolocateRan /\ last.out \in GeocodeFailures
    /\ FindAlbumPlace(album_place, last.p) # {}
    /\ photo[last.p].geolocation_json # None
    /\ photo[last.p].search_location # None

\* C8's condition: the tags are absent, or they equal the stored coordinates,
\* the asset is in at least one place album and a result is cached.
C8_ShortCircuits(ph, albums, p, lat, lon) ==
    \/ lat = None
    \/ lon = None
    \/ /\ lat = ph.exif_gps_lat
       /\ lon = ph.exif_gps_lon
       /\ \E t \in DOMAIN albums : p \in albums[t].photos
       /\ ph.geolocation_json # None

(* C8: the geolocation stage is a complete no-op (no reverse-geocoder      *)
(* call, no persist, no change to the asset or to any place album) when    *)
(* the coordinate tags are absent, or when they equal the stored           *)
(* coordinates, the asset is in a place album and a result is cached.      *)
C8_ShortCircuitIsNoOp ==
    [][ (GeolocateRan'
         /\ C8_ShortCircuits(photo[last'.p], album_place, last'.p,
                             last'.lat, last'.lon))
        => /\ last'.events = << >>
           /\ UNCHANGED <<photo, db, album_place, album_date, faces, persons>> ]_vars

\* A run that found the coordinates unchanged.
C8_Witness ==
    /\ GeolocateRan /\ last.out = "skip_unchanged"
    /\ last.lat = photo[last.p].exif_gps_lat /\ last.lat # None
    /\ last.pre # {}

(* C9 as claimed: whenever both coordinate tags are present, whatever      *)
(* their value (0 included), and the short-circuit condition does not      *)
(* hold, the stage stores the new coordinates before it calls the reverse  *)
(* geocoder, and they stay stored when the call fails.                     *)
C9_PresentCoordinatesAreStored ==
    [][ (GeolocateRan' /\ last'.lat # None /\ last'.lon # None
         /\ ~C8_ShortCircuits(photo[last'.p], album_place, last'.p,
                              last'.lat, last'.lon))
        => /\ photo'[last'.p].exif_gps_lat = last'.lat
           /\ photo'[last'.p].exif_gps_lon = last'.lon
           /\ "geocode" \in {last'.events[i] : i \in 1..Len(last'.events)} ]_vars

(* C10 as claimed: after a successful reverse geocode with N features, the *)
(* place album joined for the feature at 0-based position i has level      *)
(* N - i, for every position i with a non-numeric label.                   *)
C10_LevelOfEveryPosition ==
    (GeolocateRan /\ last.out = "ok")
    => \A i \in 1..Len(CachedFeatures(last.p)) :
         LET f == CachedFeatures(last.p)[i]
         IN  (f.text # None /\ ~IsNumeric(Val(f.text)))
             => album_place[Val(f.text)].geolocation_level
                  = Some(Len(CachedFeatures(last.p)) - (i - 1))

(* C10, amended: the place album of each non-numeric label has level N - i *)
(* for the position i of the FIRST feature carrying that label; numeric    *)
(* features are skipped but counted in N and in the positions.             *)
C10_LevelOfFirstPosition ==
    (GeolocateRan /\ last.out = "ok")
    => \A title \in NonNumericLabels(CachedFeatures(last.p)) :
         album_place[title].geolocation_level
           = Some(Len(CachedFeatures(last.p))
                    - FirstPosition(CachedFeatures(last.p), title))

\* Three features, finest to coarsest, give levels 3, 2, 1.
C10_Witness ==
    /\ GeolocateRan /\ last.out = "ok"
    /\ CachedFeatures(last.p) = FeaturesABC
    /\ album_place[LabelA].geolocation_level = Some(3)
    /\ album_place[LabelB].geolocation_level = Some(2)
    /\ album_place[LabelC].geolocation_level = Some(1)

----------------------------------------------------------------------------
(* Embedding and dominant color *)

\* What semantic_search_instance.calculate_clip_embeddings may do: raise, or
\* return a vector with its magnitude.
EmbedAnswers ==
    { [raises |-> TRUE,  img_emb |-> << >>,     magnitude |-> 0],
      [raises |-> FALSE, img_emb |-> <<1, 0>>,  magnitude |-> 1],
      [raises |-> FALSE, img_emb |-> <<0, 2>>,  magnitude |-> 2] }

\* What the palette computation on the thumbnail may do: raise (the thumbnail
\* cannot be opened), or yield the RGB triple of the most frequent color.
ColorAnswers ==
    { [raises |-> TRUE,  dominant_color |-> << >>],
      [raises |-> FALSE, dominant_color |-> <<0, 0, 0>>],
      [raises |-> FALSE, dominant_color |-> <<255, 0, 0>>] }

\* The stage recomputes whatever is stored.
HasClipEmbeddingsNever(ph) == FALSE

\* Line 183: `if not self.clip_embeddings` is the negation of this.
HasClipEmbeddings(ph) == TruthySeq(ph.clip_embeddings)

\* Line 624: `if self.dominant_color`.
HasDominantColor(ph) == TruthySeq(ph.dominant_color)

\* _generate_clip_embeddings(commit) as a function of the instance and of
\* what the service does when it is called.  An exception of self.save() is
\* caught like one of the service.
GenerateClipEmbeddingsResult(ph, answer, commit, persist_ok) ==
    IF HasClipEmbeddings(ph)
    THEN [photo |-> ph, row |-> None, out |-> "skip", events |-> << >>]
    ELSE IF answer.raises
    THEN [photo |-> ph, row |-> None, out |-> "error", events |-> <<"embed">>]
    ELSE LET ph1 == [ph EXCEPT !.clip_embeddings = Some(answer.img_emb),
                               !.clip_embeddings_magnitude = Some(answer.magnitude)]
         IN  IF ~commit
             THEN [photo |-> ph1, row |-> None, out |-> "done",
                   events |-> <<"embed">>]
             ELSE IF persist_ok
             THEN [photo |-> ph1, row |-> Some(ph1), out |-> "done",
                   events |-> <<"embed", "save">>]
             ELSE [photo |-> ph1, row |-> None, out |-> "error",
                   events |-> <<"embed", "save_failed">>]

\* _get_dominant_color() as a function of the instance and of what the
\* palette computation does when it is reached.
GetDominantColorResult(ph, answer, persist_ok) ==
    IF HasDominantColor(ph)
    THEN [photo |-> ph, row |-> None, out |-> "skip", events |-> << >>]
    ELSE IF answer.raises
    THEN [photo |-> ph, row |-> None, out |-> "error", events |-> <<"palette">>]
    ELSE LET ph1 == [ph EXCEPT !.dominant_color = Some(answer.dominant_color)]
         IN  IF persist_ok
             THEN [photo |-> ph1, row |-> Some(ph1), out |-> "done",
                   events |-> <<"palette", "save">>]
             ELSE [photo |-> ph1, row |-> None, out |-> "error",
                   events |-> <<"palette", "save_failed">>]

\* A stage run on p with result r takes effect on the instance and the row.
ApplyStage(op, p, r) ==
    /\ r.photo = photo[p] \/ r.row # None \/ unsaved_runs[p] < MaxUnsavedRuns
    /\ photo' = [photo EXCEPT ![p] = r.photo]
    /\ db' = IF r.row # None THEN Save(db, p, Val(r.row)) ELSE db
    /\ unsaved_runs' = IF r.photo = photo[p] \/ r.row # None THEN unsaved_runs
                       ELSE [unsaved_runs EXCEPT ![p] = @ + 1]
    /\ last' = [op |-> op, p |-> p, out |-> r.out, events |-> r.events]
    /\ UNCHANGED <<album_date, album_place, faces, persons, loaded_values,
                   media, thumbnails,
                   album_thing, worker>>

GenerateClipEmbeddings(p, answer, commit, persist_ok) ==
    \E r \in {GenerateClipEmbeddingsResult(photo[p], answer, commit, persist_ok)} :
        ApplyStage("generate_clip_embeddings", p, r)

GetDominantColor(p, answer, persist_ok) ==
    \E r \in {GetDominantColorResult(photo[p], answer, persist_ok)} :
        ApplyStage("get_dominant_color", p, r)

InitOnce ==
    /\ photo = [p \in Photos |-> NewPhoto]
    /\ db = photo
    /\ album_date = << >>
    /\ album_place = << >>
    /\ faces = << >>
    /\ persons = << >>
    /\ unsaved_runs = [p \in Photos |-> 0]
    /\ loaded_values = [p \in Photos |-> LoadedValues(db[p])]
    /\ media = NoMedia
    /\ thumbnails = {}
    /\ album_thing = << >>
    /\ worker = Idle
    /\ last = NoRun

RunGenerateClipEmbeddings ==
    \E answer \in EmbedAnswers, commit \in BOOLEAN, persist_ok \in BOOLEAN :
        GenerateClipEmbeddings("p1", answer, commit, persist_ok)

RunGetDominantColor ==
    \E answer \in ColorAnswers, persist_ok \in BOOLEAN :
        GetDominantColor("p1", answer, persist_ok)

NextOnce == RunGenerateClipEmbeddings \/ RunGetDominantColor \/ RunFromDb

SpecOnce == InitOnce /\ [][NextOnce]_vars

(* C4: once the embedding (vector and magnitude) or the dominant color of  *)
(* an asset is set, no later run of _generate_clip_embeddings or           *)
(* _get_dominant_color changes it or calls the service again.              *)
C4_ComputedAtMostOnce ==
    [][ /\ (last'.op = "generate_clip_embeddings"
            /\ photo[last'.p].clip_embeddings # None)
           => /\ last'.events = << >>
              /\ photo'[last'.p].clip_embeddings = photo[last'.p].clip_embeddings
              /\ photo'[last'.p].clip_embeddings_magnitude
                   = photo[last'.p].clip_embeddings_magnitude
              /\ photo'[last'.p].dominant_color = photo[last'.p].dominant_color
        /\ (last'.op = "get_dominant_color"
            /\ photo[last'.p].dominant_color # None)
           => /\ last'.events = << >>
              /\ photo'[last'.p].dominant_color = photo[last'.p].dominant_color
              /\ photo'[last'.p].clip_embeddings = photo[last'.p].clip_embeddings
              /\ photo'[last'.p].clip_embeddings_magnitude
                   = photo[last'.p].clip_embeddings_magnitude
        /\ (last'.op = "get_dominant_color"
            /\ photo[last'.p].clip_embeddings # None)
           => photo'[last'.p].clip_embeddings = photo[last'.p].clip_embeddings
        /\ (last'.op = "generate_clip_embeddings"
            /\ photo[last'.p].dominant_color # None)
           => photo'[last'.p].dominant_color = photo[last'.p].dominant_color ]_vars

\* A run of the embedding stage that found both facets set and did nothing.
C4_Witness ==
    /\ last.op = "generate_clip_embeddings" /\ last.out = "skip"
    /\ photo[last.p].clip_embeddings # None
    /\ photo[last.p].dominant_color # None

----------------------------------------------------------------------------
(* Caption Generator *)

\* A text is a sequence of tokens: a word, one blank, a marker of the
\* captioner, or the separator " , " of the scene captions.
Sep == ","

Blank == " "

StartMarker == "<start>"

EndMarker == "<end>"

\* separator.join(words)
RECURSIVE Join(_)
Join(words) ==
    IF words = << >> THEN << >>
    ELSE IF Len(words) = 1 THEN <<words[1]>>
    ELSE <<words[1], Sep>> \o Join(Tail(words))

\* text.replace(marker, "")
RECURSIVE Replace(_, _)
Replace(text, marker) ==
    IF text = << >> THEN << >>
    ELSE IF Head(text) = marker THEN Replace(Tail(text), marker)
    ELSE <<Head(text)>> \o Replace(Tail(text), marker)

\* text.strip()
RECURSIVE Strip(_)
Strip(text) ==
    IF text = << >> THEN << >>
    ELSE IF Head(text) = Blank THEN Strip(Tail(text))
    ELSE IF text[Len(text)] = Blank THEN Strip(SubSeq(text, 1, Len(text) - 1))
    ELSE text

\* text.lower()
LowerWord(w) == IF w = "A" THEN "a" ELSE w

Lower(text) == [i \in 1..Len(text) |-> LowerWord(text[i])]

\* Line 161-163.
CleanCaption(caption) ==
    Lower(Strip(Replace(Replace(caption, StartMarker), EndMarker)))

Places365(categories, attributes, environment) ==
    [categories |-> categories, attributes |-> attributes,
     environment |-> environment]

\* What place365_instance.inference_places365 may do.
PlacesAnswers ==
    { [raises |-> TRUE,  res |-> Places365(<< >>, << >>, "")],
      [raises |-> FALSE, res |-> Places365(<<"kitchen">>, <<"wood">>, "indoor")],
      [raises |-> FALSE, res |-> Places365(<< >>, << >>, "outdoor")] }

\* What im2txt may do.
Im2txtAnswers ==
    { [raises |-> TRUE,  caption |-> << >>],
      [raises |-> FALSE,
       caption |-> <<StartMarker, Blank, "A", Blank, "dog", Blank, EndMarker>>],
      [raises |-> FALSE, caption |-> <<"dog">>] }

\* Longest search_captions explored, in tokens.
MaxCaptionLen == 7

\* captions = {}
EmptyCaptions == [places365 |-> None, im2txt |-> None]

\* The scene captions are appended like the neural caption, with no separator.
SearchCaptionsNoSeparator(search_captions, res) ==
    IF TruthySeq(search_captions)
    THEN Val(search_captions) \o Join(res.categories \o <<res.environment>>)
    ELSE Join(res.categories \o <<res.environment>>)

\* Line 212-223.
SearchCaptions(search_captions, res) ==
    IF TruthySeq(search_captions)
    THEN Val(search_captions) \o <<Sep>>
             \o Join(res.categories \o <<res.environment>>)
    ELSE Join(res.categories \o <<res.environment>>)

\* The fresh bag is stored before the classifier is called.
GenerateCaptionsResultStoringFirst(ph, answer, commit, persist_ok) ==
    LET ph0 == [ph EXCEPT !.captions_json = Some(EmptyCaptions)]
        ph1 == [ph EXCEPT
                  !.captions_json =
                      Some([EmptyCaptions EXCEPT !.places365 = Some(answer.res)]),
                  !.search_captions =
                      Some(SearchCaptions(ph.search_captions, answer.res))]
    IN  IF answer.raises
        THEN [photo |-> ph0, row |-> None, out |-> "error",
              events |-> <<"places365">>]
        ELSE IF commit /\ persist_ok
        THEN [photo |-> ph1, row |-> Some(ph1), out |-> "done",
              events |-> <<"places365", "save">>]
        ELSE [photo |-> ph1, row |-> None,
              out |-> IF commit THEN "error" ELSE "done",
              events |-> IF commit THEN <<"places365", "save_failed">>
                         ELSE <<"places365">>]

\* _generate_captions(commit) as a function of the instance and of what the
\* scene classifier does.
GenerateCaptionsResult(ph, answer, commit, persist_ok) ==
    IF answer.raises
    THEN [photo |-> ph, row |-> None, out |-> "error", events |-> <<"places365">>]
    ELSE LET ph1 == [ph EXCEPT
                       !.captions_json =
                           Some([EmptyCaptions EXCEPT !.places365 = Some(answer.res)]),
                       !.search_captions =
                           Some(SearchCaptions(ph.search_captions, answer.res))]
         IN  IF ~commit
             THEN [photo |-> ph1, row |-> None, out |-> "done",
                   events |-> <<"places365">>]
             ELSE IF persist_ok
             THEN [photo |-> ph1, row |-> Some(ph1), out |-> "done",
                   events |-> <<"places365", "save">>]
             ELSE [photo |-> ph1, row |-> None, out |-> "error",
                   events |-> <<"places365", "save_failed">>]

\* _generate_captions_im2txt(commit) as a function of the instance and of
\* what the captioner does.  captions is the dict of the instance itself, so
\* line 164 changes the instance even when line 167 raises.
GenerateCaptionsIm2txtResult(ph, answer, commit, persist_ok) ==
    IF answer.raises \/ ph.captions_json = None
    THEN [photo |-> ph, row |-> None, out |-> "false", events |-> <<"im2txt">>]
    ELSE LET caption == CleanCaption(answer.caption)
             ph1 == [ph EXCEPT !.captions_json =
                        Some([Val(ph.captions_json) EXCEPT !.im2txt = Some(caption)])]
         IN  IF ph.search_captions = None
             THEN [photo |-> ph1, row |-> None, out |-> "false",
                   events |-> <<"im2txt">>]
             ELSE LET ph2 == [ph1 EXCEPT !.search_captions =
                                  Some(Val(ph.search_captions) \o caption)]
                  IN  IF ~commit
                      THEN [photo |-> ph2, row |-> None, out |-> "true",
                            events |-> <<"im2txt">>]
                      ELSE IF persist_ok
                      THEN [photo |-> ph2, row |-> Some(ph2), out |-> "true",
                            events |-> <<"im2txt", "save">>]
                      ELSE [photo |-> ph2, row |-> None, out |-> "false",
                            events |-> <<"im2txt", "save_failed">>]

GenerateCaptions(p, answer, commit, persist_ok) ==
    \E r \in {GenerateCaptionsResult(photo[p], answer, commit, persist_ok)} :
        /\ IF r.photo.search_captions = None THEN TRUE
           ELSE Len(Val(r.photo.search_captions)) <= MaxCaptionLen
        /\ ApplyStage("generate_captions", p, r)

GenerateCaptionsIm2txt(p, answer, commit, persist_ok) ==
    \E r \in {GenerateCaptionsIm2txtResult(photo[p], answer, commit, persist_ok)} :
        /\ IF r.photo.search_captions = None THEN TRUE
           ELSE Len(Val(r.photo.search_captions)) <= MaxCaptionLen
        /\ ApplyStage("generate_captions_im2txt", p, r)

InitCaptions == InitOnce

RunGenerateCaptions ==
    \E answer \in PlacesAnswers, commit \in BOOLEAN :
        \E persist_ok \in IF commit /\ ~answer.raises THEN BOOLEAN ELSE {TRUE} :
            GenerateCaptions("p1", answer, commit, persist_ok)

RunGenerateCaptionsIm2txt ==
    \E answer \in Im2txtAnswers, commit \in BOOLEAN :
        \E persist_ok \in IF commit /\ ~answer.raises THEN BOOLEAN ELSE {TRUE} :
            GenerateCaptionsIm2txt("p1", answer, commit, persist_ok)

NextCaptions == RunGenerateCaptions \/ RunGenerateCaptionsIm2txt \/ RunFromDb

SpecCaptions == InitCaptions /\ [][NextCaptions]_vars

(* C5 as claimed: running the scene-caption stage again with the same      *)
(* classifier output, or the neural-caption stage again with the same      *)
(* caption, leaves the caption bag and search_captions as they were after  *)
(* the first run.                                                          *)
C5_RerunLeavesCaptions ==
    [][ /\ (last'.op = "generate_captions" /\ last'.out = "done")
           => \A answer \in PlacesAnswers, commit \in BOOLEAN :
                (~answer.raises
                 /\ Some(answer.res) = Val(photo'[last'.p].captions_json).places365)
                => LET again == GenerateCaptionsResult(photo'[last'.p], answer,
                                                       commit, TRUE).photo
                   IN  /\ again.captions_json = photo'[last'.p].captions_json
                       /\ again.search_captions = photo'[last'.p].search_captions
        /\ (last'.op = "generate_captions_im2txt" /\ last'.out = "true")
           => \A answer \in Im2txtAnswers, commit \in BOOLEAN :
                (~answer.raises
                 /\ Some(CleanCaption(answer.caption))
                      = Val(photo'[last'.p].captions_json).im2txt)
                => LET again == GenerateCaptionsIm2txtResult(photo'[last'.p],
                                    answer, commit, TRUE).photo
                   IN  /\ again.captions_json = photo'[last'.p].captions_json
                       /\ again.search_captions = photo'[last'.p].search_captions
      ]_vars

----------------------------------------------------------------------------
(* Face Extractor *)

\* A box is <<top, right, bottom, left>>, as face_recognition returns it.
BoxBase == <<10, 20, 20, 10>>

\* BoxBase moved by the margin in every coordinate.
BoxJitter == <<12, 18, 22, 8>>

\* BoxBase moved by more than the margin in one coordinate.
BoxFarTop == <<13, 20, 20, 10>>

BoxFarRight == <<10, 23, 20, 10>>

BoxFarBottom == <<10, 20, 17, 10>>

BoxFarLeft == <<10, 20, 20, 7>>

\* What face_recognition.face_locations may return.
Detections ==
    { << >>, <<BoxBase>>, <<BoxJitter>>, <<BoxBase, BoxFarTop>>,
      <<BoxFarTop, BoxJitter>>, <<BoxFarRight, BoxFarRight>>,
      <<BoxFarBottom, BoxFarLeft>>, <<BoxJitter, BoxBase>>,
      <<BoxFarLeft, BoxFarRight>> }

\* What face_recognition.face_locations may do: raise, or return boxes.
DetectAnswers ==
    {[raises |-> TRUE, locs |-> << >>]}
        \cup {[raises |-> FALSE, locs |-> d] : d \in Detections}

margin == 2

\* Person.objects.filter(name="unknown")
UnknownPersons(ps) == {i \in DOMAIN ps : ps[i] = "unknown"}

\* The query of line 550-560 without the conditions on location_top.
ExistingFacesAnyTop(fs, p, face_location) ==
    { i \in DOMAIN fs :
        /\ fs[i].photo = p
        /\ \A k \in 2..4 : /\ fs[i].box[k] <= face_location[k] + margin
                           /\ fs[i].box[k] >= face_location[k] - margin }

\* Line 550-560: the stored faces of this photo within the margin of the box.
ExistingFaces(fs, p, face_location) ==
    { i \in DOMAIN fs :
        /\ fs[i].photo = p
        /\ \A k \in 1..4 : /\ fs[i].box[k] <= face_location[k] + margin
                           /\ fs[i].box[k] >= face_location[k] - margin }

\* Line 538-580: the loop over the detected boxes from position idx_face on.
\* acc is [faces, events].
RECURSIVE SaveFaces(_, _, _, _, _)
SaveFaces(acc, face_locations, idx_face, p, unknown_person) ==
    IF idx_face > Len(face_locations) THEN acc
    ELSE IF ExistingFaces(acc.faces, p, face_locations[idx_face]) # {}
    THEN SaveFaces(acc, face_locations, idx_face + 1, p, unknown_person)
    ELSE SaveFaces([faces  |-> Append(acc.faces,
                                  [photo  |-> p,
                                   box    |-> face_locations[idx_face],
                                   person |-> unknown_person]),
                    events |-> Append(acc.events, "face_save")],
                   face_locations, idx_face + 1, p, unknown_person)

\* A failed detection goes on with a box of its own.
FaceLocationsDespiteFailure(detect) ==
    IF detect.raises THEN <<BoxFarLeft>> ELSE detect.locs

\* Line 528-534: face_locations stays the empty list when detection raises.
FaceLocations(detect) ==
    IF detect.raises THEN << >> ELSE detect.locs

\* _extract_faces() as a function of the Face and Person tables and of what
\* detection and encoding do.  An exception of face_encodings is not caught.
ExtractFacesResult(fs, ps, p, detect, encode_ok) ==
    LET ps1 == IF UnknownPersons(ps) = {} THEN Append(ps, "unknown") ELSE ps
        ev1 == IF UnknownPersons(ps) = {} THEN <<"person_save">> ELSE << >>
        unknown_person == CHOOSE i \in UnknownPersons(ps1) :
                              \A j \in UnknownPersons(ps1) : i <= j
        face_locations == FaceLocations(detect)
        detected == IF detect.raises THEN "detect_failed" ELSE "detect"
    IN  IF Len(face_locations) = 0
        THEN [faces |-> fs, persons |-> ps1, out |-> "done",
              events |-> ev1 \o <<detected, "cache_clear">>]
        ELSE IF ~encode_ok
        THEN [faces |-> fs, persons |-> ps1, out |-> "raised",
              events |-> ev1 \o <<detected, "encode_failed">>]
        ELSE LET acc == SaveFaces([faces |-> fs,
                                   events |-> ev1 \o <<detected, "encode">>],
                                  face_locations, 1, p, unknown_person)
             IN  [faces |-> acc.faces, persons |-> ps1, out |-> "done",
                  events |-> Append(acc.events, "cache_clear")]

ExtractFaces(p, detect, encode_ok) ==
    \E r \in {ExtractFacesResult(faces, persons, p, detect, encode_ok)} :
        /\ faces' = r.faces
        /\ persons' = r.persons
        /\ last' = [op |-> "extract_faces", p |-> p, out |-> r.out,
                    events |-> r.events,
                    locs |-> IF detect.raises THEN << >> ELSE detect.locs]
        /\ UNCHANGED <<photo, db, album_date, album_place, unsaved_runs,
                       loaded_values, media, thumbnails,
                   album_thing, worker>>

\* Another asset has a face, assigned to an identified person, where this
\* asset will have one too.
InitFaces ==
    /\ photo = [p \in Photos |-> NewPhoto]
    /\ db = photo
    /\ album_date = << >>
    /\ album_place = << >>
    /\ persons = <<"alice">>
    /\ faces = <<[photo |-> "p2", box |-> BoxFarTop, person |-> 1]>>
    /\ unsaved_runs = [p \in Photos |-> 0]
    /\ loaded_values = [p \in Photos |-> LoadedValues(db[p])]
    /\ media = NoMedia
    /\ thumbnails = {}
    /\ album_thing = << >>
    /\ worker = Idle
    /\ last = NoRun

RunExtractFaces ==
    \E detect \in DetectAnswers :
        \E encode_ok \in IF Len(detect.locs) > 0 THEN BOOLEAN ELSE {TRUE} :
            ExtractFaces("p1", detect, encode_ok)

NextFaces == RunExtractFaces

SpecFaces == InitFaces /\ [][NextFaces]_vars

\* Two boxes are within 2 pixels of each other in every coordinate.
Within2(a, b) ==
    \A k \in 1..4 : a[k] - b[k] \in -2..2

\* The number of faces the last run saved.
FacesSaved ==
    Cardinality({i \in DOMAIN last.events : last.events[i] = "face_save"})

(* C3: a run of the face stage in which every detected box is within 2     *)
(* pixels, in each of top, right, bottom and left, of a Face stored for    *)
(* the asset does not change the Face table; a detected box that is more   *)
(* than 2 pixels away in some coordinate from every Face stored for the    *)
(* asset when the box is examined (the faces from before the run and the   *)
(* ones the run made of earlier boxes) makes exactly one new Face, with    *)
(* that box, of that asset, assigned to an "unknown" Person.  No stored    *)
(* Face is removed or changed.                                             *)
C3_FacesAreDeduplicated ==
    [][ last'.op = "extract_faces" =>
        LET p == last'.p
            locs == last'.locs
            old == {i \in DOMAIN faces : faces[i].photo = p}
            new == (Len(faces) + 1)..Len(faces')
            madeBefore(i) == {n \in new : \E j \in 1..(i - 1) :
                                             locs[j] = faces'[n].box}
        IN  /\ Len(faces') >= Len(faces)
            /\ SubSeq(faces', 1, Len(faces)) = faces
            /\ (\A i \in DOMAIN locs : \E f \in old : Within2(faces[f].box, locs[i]))
               => faces' = faces
            /\ last'.out = "done" =>
               \A i \in DOMAIN locs :
                 ( /\ \A f \in old : ~Within2(faces[f].box, locs[i])
                   /\ \A n \in madeBefore(i) : ~Within2(faces'[n].box, locs[i]) )
                 => /\ Cardinality({n \in new : faces'[n].box = locs[i]}) = 1
                    /\ \A n \in new :
                         faces'[n].box = locs[i]
                         => /\ faces'[n].photo = p
                            /\ persons'[faces'[n].person] = "unknown" ]_vars

\* A run that detected two boxes on an asset with stored faces, dropped one
\* as a duplicate and made a Face of the other.
C3_Witness ==
    /\ last.op = "extract_faces" /\ last.out = "done"
    /\ Len(last.locs) = 2
    /\ FacesSaved = 1
    /\ Cardinality({i \in DOMAIN faces : faces[i].photo = last.p}) >= 2

----------------------------------------------------------------------------
(* Persist with metadata export, and rating extraction *)

\* User.SaveMetadataToDisk
Preferences == {"OFF", "MEDIA_FILE", "SIDECAR_FILE"}

\* Line 120-124: the fields whose value differs from the snapshot of from_db.
\* The snapshot of an instance that was never loaded is the empty dict.
ModifiedFields(loaded, ph) ==
    IF loaded = None THEN {}
    ELSE {f \in {"rating"} : Val(loaded)[f] # ph[f]}

\* The sidecar is used for every preference.
UseSidecarAlways(pref) == TRUE

\* Line 129.
UseSidecar(pref) == pref = "SIDECAR_FILE"

\* _save_metadata(modified_fields, use_sidecar): the calls of
\* util.write_metadata it makes.
SaveMetadata(ph, modified_fields, use_sidecar) ==
    IF "rating" \in modified_fields
    THEN << [path |-> ph.image_paths[1], tag |-> "Rating", value |-> ph.rating,
             use_sidecar |-> use_sidecar] >>
    ELSE << >>

\* Photo.save(save_metadata) of instance ph with snapshot loaded, for an owner
\* whose preference is pref.  An exception of write_metadata or of the
\* persist leaves the method.
PhotoSave(ph, loaded, save_metadata, pref, write_ok, persist_ok) ==
    LET modified_fields == ModifiedFields(loaded, ph)
        writes == IF save_metadata /\ pref # "OFF"
                  THEN SaveMetadata(ph, modified_fields, UseSidecar(pref))
                  ELSE << >>
        ev == IF writes = << >> THEN << >> ELSE <<"write_metadata">>
    IN  IF writes # << >> /\ ~write_ok
        THEN [row |-> None, out |-> "raised", writes |-> << >>,
              events |-> <<"write_metadata_failed">>]
        ELSE IF ~persist_ok
        THEN [row |-> None, out |-> "raised", writes |-> writes,
              events |-> Append(ev, "save_failed")]
        ELSE [row |-> Some(ph), out |-> "done", writes |-> writes,
              events |-> Append(ev, "save")]

\* self.save(): any caller or stage persisting the instance.
SavePhoto(p, save_metadata, pref, write_ok, persist_ok) ==
    \E r \in {PhotoSave(photo[p], loaded_values[p], save_metadata, pref,
                        write_ok, persist_ok)} :
        /\ db' = IF r.row # None THEN Save(db, p, Val(r.row)) ELSE db
        /\ last' = [op |-> "save", p |-> p, out |-> r.out, events |-> r.events,
                    writes |-> r.writes, save_metadata |-> save_metadata,
                    pref |-> pref, tag |-> None, commit |-> TRUE]
        /\ UNCHANGED <<photo, album_date, album_place, faces, persons,
                       unsaved_runs, loaded_values, media, thumbnails,
                   album_thing, worker>>

\* The rating tags get_metadata may find in the file or its sidecar.
RatingTags == {None, Some(0), Some(3), Some(5)}

\* The persist of rating extraction exports metadata like every other one.
ExtractRatingSaveMetadataDefault == TRUE

\* Line 515: self.save(save_metadata=False).
ExtractRatingSaveMetadata == FALSE

\* _extract_rating(commit) when get_metadata finds rating.
ExtractRating(p, rating, commit, pref, write_ok, persist_ok) ==
    LET ph1 == IF rating # None THEN [photo[p] EXCEPT !.rating = Val(rating)]
               ELSE photo[p]
        saving == rating # None /\ commit
    IN  \E r \in { IF saving
                   THEN PhotoSave(ph1, loaded_values[p], ExtractRatingSaveMetadata,
                                  pref, write_ok, persist_ok)
                   ELSE [row |-> None, out |-> "done", writes |-> << >>,
                         events |-> << >>] } :
        /\ photo' = [photo EXCEPT ![p] = ph1]
        /\ db' = IF r.row # None THEN Save(db, p, Val(r.row)) ELSE db
        /\ last' = [op |-> "extract_rating", p |-> p, out |-> r.out,
                    events |-> IF r.out = "done" THEN Append(r.events, "cache_clear")
                               ELSE r.events,
                    writes |-> r.writes,
                    save_metadata |-> ExtractRatingSaveMetadata,
                    pref |-> pref, tag |-> rating, commit |-> commit]
        /\ UNCHANGED <<album_date, album_place, faces, persons, unsaved_runs,
                       loaded_values, media, thumbnails,
                   album_thing, worker>>

\* The asset was imported from two paths; its instance is either the one the
\* import made or one loaded from the row.
InitRating ==
    /\ photo = [p \in Photos |-> [NewPhoto EXCEPT !.image_paths = <<"/a.jpg", "/b.jpg">>]]
    /\ db = photo
    /\ album_date = << >>
    /\ album_place = << >>
    /\ faces = << >>
    /\ persons = << >>
    /\ unsaved_runs = [p \in Photos |-> 0]
    /\ \E loaded \in {None, LoadedValues(db["p1"])} :
           loaded_values = [p \in Photos |-> loaded]
    /\ media = NoMedia
    /\ thumbnails = {}
    /\ album_thing = << >>
    /\ worker = Idle
    /\ last = [op |-> "none", p |-> "p1", out |-> "none", events |-> << >>,
               writes |-> << >>, save_metadata |-> TRUE, pref |-> "OFF",
               tag |-> None, commit |-> TRUE]

RunSavePhoto ==
    \E save_metadata \in BOOLEAN, pref \in Preferences,
       write_ok \in BOOLEAN, persist_ok \in BOOLEAN :
        SavePhoto("p1", save_metadata, pref, write_ok, persist_ok)

RunExtractRating ==
    \E rating \in RatingTags, commit \in BOOLEAN, pref \in Preferences,
       write_ok \in BOOLEAN, persist_ok \in BOOLEAN :
        ExtractRating("p1", rating, commit, pref, write_ok, persist_ok)

NextRating == RunSavePhoto \/ RunExtractRating \/ RunFromDb

SpecRating == InitRating /\ [][NextRating]_vars

C12_WritesOnlyAfterChange ==
    [][ (last'.op \in {"save", "extract_rating"} /\ last'.writes # << >>)
        => photo'[last'.p].rating # db[last'.p].rating ]_vars

(* C13: a save of a loaded asset writes the rating tag exactly when the    *)
(* rating differs from the load-time snapshot, save_metadata is set and    *)
(* the owner's preference is not OFF; the write goes to the first source   *)
(* path, carries the current rating, uses a sidecar exactly when the       *)
(* preference is SIDECAR_FILE, and comes before the persist.               *)
C13_MetadataWrite ==
    [][ last'.op = "save" =>
        LET p == last'.p
            differs == /\ loaded_values[p] # None
                       /\ Val(loaded_values[p]).rating # photo[p].rating
            due == differs /\ last'.save_metadata /\ last'.pref # "OFF"
        IN  /\ (due /\ last'.out = "done")
               => /\ last'.writes =
                       << [path |-> "/a.jpg", tag |-> "Rating",
                           value |-> photo[p].rating,
                           use_sidecar |-> (last'.pref = "SIDECAR_FILE")] >>
                  /\ last'.events = <<"write_metadata", "save">>
            /\ ~due => /\ last'.writes = << >>
                       /\ last'.events \in {<<"save">>, <<"save_failed">>} ]_vars

\* A save that wrote a changed rating in place (no sidecar).
C13_Witness ==
    /\ last.op = "save" /\ last.out = "done" /\ last.pref = "MEDIA_FILE"
    /\ last.writes # << >>
    /\ ~last.writes[1].use_sidecar /\ last.writes[1].value = 5

----------------------------------------------------------------------------
(* Hasher *)

\* Longest file explored, in bytes.
MaxFileLen == 2

\* Bytes read per chunk (4096 in the code), scaled to the files explored.
ChunkSize == 1

ByteValues == {0, 1}

\* The files an asset may have at image_paths[0].
FileContents ==
    UNION {[1..n -> ByteValues] : n \in 0..MaxFileLen}

\* The ids of the owners.
OwnerIds == {1, 2, 12}

\* The digest keeps a state of one byte; the code's has sixteen.
DigestModulus == 256

DigestInit == 7

\* hash_md5.update(chunk): the state absorbs the bytes of the chunk in order.
RECURSIVE Md5Update(_, _)
Md5Update(h, chunk) ==
    IF chunk = << >> THEN h
    ELSE Md5Update((h * 31 + Head(chunk) + 1) % DigestModulus, Tail(chunk))

\* Line 149-151: the file is read and absorbed chunk by chunk until a read
\* returns no bytes.
RECURSIVE Md5OfFile(_, _)
Md5OfFile(h, rest) ==
    IF rest = << >> THEN h
    ELSE IF Len(rest) <= ChunkSize THEN Md5Update(h, rest)
    ELSE Md5OfFile(Md5Update(h, SubSeq(rest, 1, ChunkSize)),
                   SubSeq(rest, ChunkSize + 1, Len(rest)))

HexChars == <<"0", "1", "2", "3", "4", "5", "6", "7",
              "8", "9", "a", "b", "c", "d", "e", "f">>

DecChars == <<"0", "1", "2", "3", "4", "5", "6", "7", "8", "9">>

\* hash_md5.hexdigest(): the state as hexadecimal digits, of fixed width.
HexDigest(h) == <<HexChars[(h \div 16) + 1], HexChars[(h % 16) + 1]>>

\* str(n) of a natural number.
RECURSIVE Str(_)
Str(n) ==
    IF n < 10 THEN <<DecChars[n + 1]>>
    ELSE Append(Str(n \div 10), DecChars[(n % 10) + 1])

\* The identity is the digest alone.
ImageHashOfContent(content, owner_id) ==
    HexDigest(Md5OfFile(DigestInit, content))

\* Line 152: hash_md5.hexdigest() + str(self.owner.id).
ImageHash(content, owner_id) ==
    HexDigest(Md5OfFile(DigestInit, content)) \o Str(owner_id)

\* _generate_md5().  Rows are kept per instance here, whatever key they
\* are stored under.
GenerateMd5(p, pref, persist_ok) ==
    LET ph1 == [photo[p] EXCEPT !.image_hash = ImageHash(media[p], photo[p].owner)]
    IN  \E r \in {PhotoSave(ph1, loaded_values[p], TRUE, pref, TRUE, persist_ok)} :
        /\ photo' = [photo EXCEPT ![p] = ph1]
        /\ db' = IF r.row # None THEN Save(db, p, Val(r.row)) ELSE db
        /\ last' = [op |-> "generate_md5", p |-> p, out |-> r.out,
                    events |-> <<"read">> \o r.events]
        /\ UNCHANGED <<album_date, album_place, faces, persons, unsaved_runs,
                       loaded_values, media, thumbnails,
                   album_thing, worker>>

\* Two assets just imported, each from its own path, with any files and
\* owners.
InitHash ==
    /\ \E o \in [Photos -> OwnerIds] :
           photo = [p \in Photos |->
                       [NewPhoto EXCEPT !.owner = o[p],
                                        !.image_paths = <<<<"/", p>>>>]]
    /\ db = photo
    /\ album_date = << >>
    /\ album_place = << >>
    /\ faces = << >>
    /\ persons = << >>
    /\ unsaved_runs = [p \in Photos |-> 0]
    /\ loaded_values = [p \in Photos |-> None]
    /\ media \in [Photos -> FileContents]
    /\ thumbnails = {}
    /\ album_thing = << >>
    /\ worker = Idle
    /\ last = NoRun

RunGenerateMd5 ==
    \E p \in Photos, pref \in Preferences, persist_ok \in BOOLEAN :
        GenerateMd5(p, pref, persist_ok)

NextHash == RunGenerateMd5

SpecHash == InitHash /\ [][NextHash]_vars

\* The assets whose identity has been computed.
Hashed == {p \in Photos : photo[p].image_hash # << >>}

(* C14: the identity _generate_md5 computes depends on the bytes of the    *)
(* file and on the owner id only: two assets with the same bytes and the   *)
(* same owner have the same identity, two assets with the same bytes and   *)
(* different owners have different identities, and computing the identity  *)
(* of an asset again gives the identity it has.                            *)
C14_IdentityOfContentAndOwner ==
    /\ \A p \in Hashed, q \in Hashed :
         media[p] = media[q] =>
           (photo[p].owner = photo[q].owner
              <=> photo[p].image_hash = photo[q].image_hash)
    /\ \A p \in Hashed :
         \A pref \in Preferences, persist_ok \in BOOLEAN :
           ENABLED (GenerateMd5(p, pref, persist_ok)
                    /\ photo'[p].image_hash = photo[p].image_hash)

\* Two assets with the same two bytes, owned by 1 and by 12, both hashed.
C14_Witness ==
    /\ Hashed = Photos
    /\ media["p1"] = media["p2"] /\ Len(media["p1"]) = MaxFileLen
    /\ photo["p1"].owner = 1 /\ photo["p2"].owner = 12

----------------------------------------------------------------------------
(* Thumbnail Synthesizer *)

\* api.thumbnails.doesStaticThumbnailExists: the .webp artifact of the
\* directory and hash is on disk.
DoesStaticThumbnailExists(thumbs, outputPath, hash) ==
    <<outputPath, hash, ".webp">> \in thumbs

\* api.thumbnails.doesVideoThumbnailExists: the .mp4 artifact is on disk.
DoesVideoThumbnailExists(thumbs, outputPath, hash) ==
    <<outputPath, hash, ".mp4">> \in thumbs

\* Every variant is generated, whatever is on disk.
ThumbnailCallsAlways(ph, thumbs) ==
    IF ph.video
    THEN << <<"createThumbnailForVideo", "thumbnails_big", ".webp">>,
            <<"createAnimatedThumbnail", "square_thumbnails", ".mp4">>,
            <<"createAnimatedThumbnail", "square_thumbnails_small", ".mp4">> >>
    ELSE << <<"createThumbnail", "thumbnails_big", ".webp">>,
            <<"createThumbnail", "square_thumbnails", ".webp">>,
            <<"createThumbnail", "square_thumbnails_small", ".webp">> >>

\* Line 235-294: the generation calls the stage makes, in order, for what
\* is on disk: <<generator, directory, file type>>.
ThumbnailCalls(ph, thumbs) ==
    LET hash == ph.image_hash
        big == IF ~DoesStaticThumbnailExists(thumbs, "thumbnails_big", hash)
               THEN << <<IF ~ph.video THEN "createThumbnail"
                         ELSE "createThumbnailForVideo",
                         "thumbnails_big", ".webp">> >>
               ELSE << >>
        square(outputPath) ==
               (IF ~ph.video /\ ~DoesStaticThumbnailExists(thumbs, outputPath, hash)
                THEN << <<"createThumbnail", outputPath, ".webp">> >>
                ELSE << >>)
               \o
               (IF ph.video /\ ~DoesVideoThumbnailExists(thumbs, outputPath, hash)
                THEN << <<"createAnimatedThumbnail", outputPath, ".mp4">> >>
                ELSE << >>)
    IN  big \o square("square_thumbnails") \o square("square_thumbnails_small")

\* os.path.join(directory, hash + file type)
ThumbnailName(outputPath, hash, fileType) ==
    <<outputPath, "/">> \o hash \o <<fileType>>

\* Line 295-304.
WithThumbnailNames(ph) ==
    LET filetype == IF ph.video THEN ".mp4" ELSE ".webp"
    IN  [ph EXCEPT
           !.thumbnail_big =
               Some(ThumbnailName("thumbnails_big", ph.image_hash, ".webp")),
           !.square_thumbnail =
               Some(ThumbnailName("square_thumbnails", ph.image_hash, filetype)),
           !.square_thumbnail_small =
               Some(ThumbnailName("square_thumbnails_small", ph.image_hash, filetype))]

\* _generate_thumbnail(commit).  The generation call number fail_at raises
\* (0: none does) and ends the stage there; the calls before it have left
\* their artifacts.
GenerateThumbnail(p, commit, fail_at, pref, persist_ok) ==
    LET calls == ThumbnailCalls(photo[p], thumbnails)
        raised == fail_at \in 1..Len(calls)
        made == IF raised THEN SubSeq(calls, 1, fail_at - 1) ELSE calls
        ph1 == IF raised THEN photo[p] ELSE WithThumbnailNames(photo[p])
    IN  /\ fail_at <= Len(calls)
        /\ \E r \in { IF raised
                      THEN [row |-> None, out |-> "raised", writes |-> << >>,
                            events |-> <<"create_failed">>]
                      ELSE IF commit
                      THEN PhotoSave(ph1, loaded_values[p], TRUE, pref, TRUE,
                                     persist_ok)
                      ELSE [row |-> None, out |-> "done", writes |-> << >>,
                            events |-> << >>] } :
            /\ thumbnails' = thumbnails \cup
                   {<<made[i][2], photo[p].image_hash, made[i][3]>> :
                        i \in DOMAIN made}
            /\ photo' = [photo EXCEPT ![p] = ph1]
            /\ db' = IF r.row # None THEN Save(db, p, Val(r.row)) ELSE db
            /\ last' = [op |-> "generate_thumbnail", p |-> p, out |-> r.out,
                        events |-> r.events, calls |-> made]
            /\ UNCHANGED <<album_date, album_place, faces, persons,
                           unsaved_runs, loaded_values, media,
                           album_thing, worker>>

\* Two hashed assets of one owner, an image or a video each, with no
\* thumbnail yet.
InitThumbnail ==
    /\ \E v \in [Photos -> BOOLEAN] :
           photo = [p \in Photos |->
                       [NewPhoto EXCEPT
                          !.video = v[p],
                          !.image_paths = <<<<"/", p>>>>,
                          !.image_hash =
                              ImageHash(IF p = "p1" THEN <<0>> ELSE <<1>>, 1)]]
    /\ db = photo
    /\ album_date = << >>
    /\ album_place = << >>
    /\ faces = << >>
    /\ persons = << >>
    /\ unsaved_runs = [p \in Photos |-> 0]
    /\ loaded_values = [p \in Photos |-> None]
    /\ media = [p \in Photos |-> IF p = "p1" THEN <<0>> ELSE <<1>>]
    /\ thumbnails = {}
    /\ album_thing = << >>
    /\ worker = Idle
    /\ last = [op |-> "none", p |-> "p1", out |-> "none", events |-> << >>,
               calls |-> << >>]

RunGenerateThumbnail ==
    \E p \in Photos, commit \in BOOLEAN, fail_at \in 0..3,
       persist_ok \in BOOLEAN :
        GenerateThumbnail(p, commit, fail_at, "OFF", persist_ok)

NextThumbnail == RunGenerateThumbnail

SpecThumbnail == InitThumbnail /\ [][NextThumbnail]_vars

\* The three variants of an asset: <<directory, file type>>.
Variants(ph) ==
    { <<"thumbnails_big", ".webp">>,
      <<"square_thumbnails", IF ph.video THEN ".mp4" ELSE ".webp">>,
      <<"square_thumbnails_small", IF ph.video THEN ".mp4" ELSE ".webp">> }

(* C15: an invocation of thumbnail synthesis that completes has generated  *)
(* exactly the variants of the asset whose artifact for its identity was   *)
(* not on disk, each once: none after a complete invocation, only the      *)
(* missing ones after a partial one.  It leaves all three artifacts on     *)
(* disk, and the three paths it records depend on the identity and the     *)
(* kind of asset only, so they are the ones an earlier invocation          *)
(* recorded.  An invocation that raises has generated missing variants     *)
(* only.                                                                   *)
C15_GeneratesMissingVariantsOnly ==
    [][ last'.op = "generate_thumbnail" =>
        LET p == last'.p
            h == photo[p].image_hash
            missing == {v \in Variants(photo[p]) : <<v[1], h, v[2]>> \notin thumbnails}
            generated == {<<last'.calls[i][2], last'.calls[i][3]>> :
                              i \in DOMAIN last'.calls}
        IN  /\ Cardinality(generated) = Len(last'.calls)
            /\ generated \subseteq missing
            /\ thumbnails' = thumbnails \cup {<<v[1], h, v[2]>> : v \in generated}
            /\ last'.out # "raised" =>
                 /\ generated = missing
                 /\ \A v \in Variants(photo[p]) : <<v[1], h, v[2]>> \in thumbnails'
                 /\ photo[p].thumbnail_big # None =>
                      /\ photo'[p].thumbnail_big = photo[p].thumbnail_big
                      /\ photo'[p].square_thumbnail = photo[p].square_thumbnail
                      /\ photo'[p].square_thumbnail_small
                           = photo[p].square_thumbnail_small
                 /\ {Val(photo'[p].thumbnail_big), Val(photo'[p].square_thumbnail),
                     Val(photo'[p].square_thumbnail_small)}
                      = {<<v[1], "/">> \o h \o <<v[2]>> : v \in Variants(photo[p])} ]_vars

\* A second invocation that made no call, on an asset whose artifacts exist,
\* while the other asset, a video, has its artifacts too.
C15_Witness ==
    /\ last.op = "generate_thumbnail" /\ last.out = "done"
    /\ last.calls = << >>
    /\ photo[last.p].thumbnail_big # None
    /\ \E q \in Photos \ {last.p} :
          /\ photo[q].video
          /\ photo[q].thumbnail_big # None
          /\ <<"square_thumbnails_small", photo[q].image_hash, ".mp4">>
                \in thumbnails

----------------------------------------------------------------------------
(* Timestamp Resolver: timezone correction and order of persists *)

\* The Timestamp Resolver as a function of the two tags: an asset with any
\* stored coordinates, either never resolved or resolved before to no date
\* or to day 1, and any pair of tags waiting in the file.
InitTimezone ==
    \E c \in StoredCoords, before \in {<< >>, <<None>>, <<Some(HoursPerDay)>>},
       exif \in DateTags, exifvideo \in DateTags :
        /\ photo = [p \in Photos |->
                       [NewPhoto EXCEPT
                          !.exif_gps_lat = c, !.exif_gps_lon = c,
                          !.exif_timestamp =
                              IF before = << >> THEN None ELSE before[1]]]
        /\ db = photo
        /\ album_date = [k \in {DateKey(before[i]) : i \in DOMAIN before}
                            |-> {"p1"}]
        /\ album_place = << >>
        /\ faces = << >>
        /\ persons = << >>
        /\ unsaved_runs = [p \in Photos |-> 0]
        /\ loaded_values = [p \in Photos |-> LoadedValues(db[p])]
        /\ media = NoMedia
        /\ thumbnails = {}
        /\ album_thing = << >>
        /\ worker = Idle
        /\ last = [op |-> "tags", p |-> "p1", out |-> "none", events |-> << >>,
                   exif |-> exif, exifvideo |-> exifvideo]

RunResolveTimestamp ==
    /\ last.op = "tags"
    /\ \E commit \in BOOLEAN :
         \E persist_ok \in (IF commit THEN BOOLEAN ELSE {TRUE}) :
            ExtractDateTimeFromExif("p1", last.exif, last.exifvideo,
                                    commit, persist_ok)

NextTimezone == RunResolveTimestamp

SpecTimezone == InitTimezone /\ [][NextTimezone]_vars

\* The value a run parses when no correction applies: the container tag
\* when it is present, the primary tag otherwise, read as UTC.
ParsedAsUtc(exif, exifvideo) ==
    IF TruthySeq(exifvideo) THEN Strptime(Val(exifvideo))
    ELSE IF TruthySeq(exif) THEN Strptime(Val(exif))
    ELSE None

(* C16: capture_time differs from the parsed tag value only when the value *)
(* came from the container tag and the asset has stored coordinates at     *)
(* which a timezone is found; with absent coordinates capture_time is the  *)
(* parsed value read as UTC and the asset is in the Album-by-Date of that  *)
(* UTC date after the run.                                                 *)
C16_TimezoneCorrection ==
    [][ (last.op = "tags" /\ last'.op = "extract_date_time")
        => LET ph == photo["p1"]
               absent == ph.exif_gps_lat = None \/ ph.exif_gps_lon = None
               zoned == /\ TruthySeq(last.exifvideo)
                        /\ ~absent
                        /\ TimezoneAt(Val(ph.exif_gps_lon),
                                      Val(ph.exif_gps_lat)) # None
               parsed == ParsedAsUtc(last.exif, last.exifvideo)
           IN  /\ ~zoned => photo'["p1"].exif_timestamp = parsed
               /\ (absent /\ parsed # None)
                  => /\ photo'["p1"].exif_timestamp = parsed
                     /\ Some(DateOf(Val(parsed))) \in DOMAIN album_date'
                     /\ "p1" \in album_date'[Some(DateOf(Val(parsed)))] ]_vars

\* An asset without coordinates whose capture_time is in the last hour of a
\* day and which is in the album of that day.
C16_Witness ==
    /\ last.op = "extract_date_time"
    /\ photo["p1"].exif_gps_lat = None
    /\ photo["p1"].exif_timestamp # None
    /\ Val(photo["p1"].exif_timestamp) % HoursPerDay = HoursPerDay - 1
    /\ AlbumDatesOf(album_date, "p1")
         = {Some(DateOf(Val(photo["p1"].exif_timestamp)))}

\* The position of the first event e in a trace, 0 when it has none.
FirstIndex(events, e) ==
    IF \E i \in DOMAIN events : events[i] = e
    THEN CHOOSE i \in DOMAIN events :
             events[i] = e /\ \A j \in 1..(i - 1) : events[j] # e
    ELSE 0

(* C17: in the Timestamp Resolver the removal from the old Album-by-Date   *)
(* and the addition to the new one come before the asset's own persist is  *)
(* attempted, so when that persist fails the asset has left the old album  *)
(* and is in the album of its new date.                                    *)
C17_AlbumsBeforeOwnPersist ==
    [][ (last'.op = "extract_date_time"
         /\ \E i \in DOMAIN last'.events : last'.events[i] \in {"save", "save_failed"})
        => LET p == last'.p
               ev == last'.events
               attempt == IF FirstIndex(ev, "save") # 0 THEN FirstIndex(ev, "save")
                          ELSE FirstIndex(ev, "save_failed")
               oldKey == DateKey(photo[p].exif_timestamp)
               newKey == DateKey(photo'[p].exif_timestamp)
           IN  /\ FirstIndex(ev, "album_add") \in 1..(attempt - 1)
               /\ FirstIndex(ev, "album_remove") < FirstIndex(ev, "album_add")
               /\ (oldKey \in DOMAIN album_date)
                  => FirstIndex(ev, "album_remove") # 0
               /\ newKey \in DOMAIN album_date'
               /\ p \in album_date'[newKey]
               /\ (oldKey \in DOMAIN album_date /\ oldKey # newKey)
                  => p \notin album_date'[oldKey]
               /\ last'.out = "raised" => db' = db ]_vars

\* A run whose own persist failed after it had moved the asset from the
\* album of day 1 to another album.
C17_Witness ==
    /\ last.op = "extract_date_time" /\ last.out = "raised"
    /\ last.pre = {Some(1)}
    /\ photo[last.p].exif_timestamp # db[last.p].exif_timestamp
    /\ AlbumDatesOf(album_date, last.p) = {DateKey(photo[last.p].exif_timestamp)}
    /\ Some(1) \notin AlbumDatesOf(album_date, last.p)

----------------------------------------------------------------------------
(* Face Extractor: failures of detection and encoding *)

\* The last run of the face stage went through event e.
FaceStageSaw(e) ==
    /\ last.op = "extract_faces"
    /\ \E i \in DOMAIN last.events : last.events[i] = e

(* C18: when face detection throws, the face stage creates no Face,        *)
(* removes or changes no Face, and returns without raising.                *)
C18_FailedDetection ==
    [][ FaceStageSaw("detect_failed")'
        => /\ faces' = faces
           /\ last'.out = "done"
           /\ last'.events[Len(last'.events)] = "cache_clear" ]_vars

\* A failed detection on an asset that has faces from an earlier run.
C18_Witness ==
    /\ FaceStageSaw("detect_failed")
    /\ last.out = "done"
    /\ Cardinality({i \in DOMAIN faces : faces[i].photo = last.p}) >= 2

(* C19 as claimed: when face encoding throws after detection returned at   *)
(* least one box, the face stage creates no Face and returns without       *)
(* raising.                                                                *)
C19_FailedEncoding ==
    [][ FaceStageSaw("encode_failed")'
        => /\ faces' = faces
           /\ last'.out = "done" ]_vars

----------------------------------------------------------------------------
(* Cache invalidation *)

\* The events of a trace that persist an asset, an album or a face.
PersistEvents ==
    {"save", "album_save", "album_add", "album_remove", "place_albums",
     "face_save"}

(* C20 as claimed: a stage run that changes album membership, the          *)
(* geolocation, the face set or the caption bag of an asset clears the     *)
(* cache, and does so after the last persist of the run.                   *)
C20_CacheClearedAfterChange ==
    [][ LET p == last'.p
            ev == last'.events
        IN  ( \/ album_date' # album_date
              \/ album_place' # album_place
              \/ faces' # faces
              \/ photo'[p].geolocation_json # photo[p].geolocation_json
              \/ photo'[p].captions_json # photo[p].captions_json )
            => \E i \in DOMAIN ev :
                 /\ ev[i] = "cache_clear"
                 /\ \A j \in (i + 1)..Len(ev) : ev[j] \notin PersistEvents ]_vars

----------------------------------------------------------------------------
(* Album-by-Thing reconciliation *)

\* api.models.album_thing.get_album_thing: the albums with one of that title
\* (of the owner), created empty and untyped when there was none.
GetAlbumThing(albums, title) ==
    IF title \in DOMAIN albums THEN albums
    ELSE [t \in DOMAIN albums \cup {title} |->
            IF t = title THEN [photos |-> {}, thing_type |-> None]
            ELSE albums[t]]

\* The album is tagged on every visit, member or not.
JoinAlbumThingRetagging(albums, title, p, thing_type) ==
    [GetAlbumThing(albums, title) EXCEPT
        ![title] = [photos |-> @.photos \cup {p}, thing_type |-> Some(thing_type)]]

\* Line 594-600 and 602-611: get the album of the title; when the asset is
\* not a member yet, add it and tag the album.
JoinAlbumThing(albums, title, p, thing_type) ==
    LET got == GetAlbumThing(albums, title)
    IN  IF p \in got[title].photos THEN got
        ELSE [got EXCEPT ![title] = [photos |-> @.photos \cup {p},
                                     thing_type |-> Some(thing_type)]]

\* One of the two loops, from position i of its list on.
RECURSIVE JoinAlbumThings(_, _, _, _, _)
JoinAlbumThings(albums, titles, i, p, thing_type) ==
    IF i > Len(titles) THEN albums
    ELSE JoinAlbumThings(JoinAlbumThing(albums, titles[i], p, thing_type),
                         titles, i + 1, p, thing_type)

\* Line 589-592.
HasPlaces365(ph) ==
    ph.captions_json # None /\ Val(ph.captions_json).places365 # None

\* The asset first leaves every album, then joins those of the result.
AlbumThingsLeavingStale(albums, ph, p) ==
    IF ~HasPlaces365(ph) THEN albums
    ELSE LET res == Val(Val(ph.captions_json).places365)
             left == [t \in DOMAIN albums |->
                        [albums[t] EXCEPT !.photos = @ \ {p}]]
         IN  JoinAlbumThings(
                 JoinAlbumThings(left, res.attributes, 1, p,
                                 "places365_attribute"),
                 res.categories, 1, p, "places365_category")

\* Line 589-611: the AlbumThing rows after _add_to_album_thing.
AlbumThingsAfter(albums, ph, p) ==
    IF ~HasPlaces365(ph) THEN albums
    ELSE LET res == Val(Val(ph.captions_json).places365)
         IN  JoinAlbumThings(
                 JoinAlbumThings(albums, res.attributes, 1, p,
                                 "places365_attribute"),
                 res.categories, 1, p, "places365_category")

\* _add_to_album_thing()
AddToAlbumThing(p) ==
    /\ album_thing' = AlbumThingsAfter(album_thing, photo[p], p)
    /\ last' = [op |-> "add_to_album_thing", p |-> p, out |-> "done",
                events |-> (IF album_thing' # album_thing
                            THEN <<"album_save">> ELSE << >>)
                           \o <<"cache_clear">>]
    /\ UNCHANGED <<photo, db, album_date, album_place, faces, persons,
                   unsaved_runs, loaded_values, media, thumbnails, worker>>

\* The scene-caption results of an asset that is classified again: the
\* second shares an attribute with the first and has a string that is both
\* an attribute and a category.
Reclassifications ==
    { [raises |-> FALSE, res |-> Places365(<<"kitchen">>, <<"wood">>, "indoor")],
      [raises |-> FALSE,
       res |-> Places365(<<"beach">>, <<"wood", "beach">>, "outdoor")],
      [raises |-> FALSE, res |-> Places365(<< >>, << >>, "outdoor")],
      [raises |-> TRUE,  res |-> Places365(<< >>, << >>, "")] }

\* Another asset is in the album of an attribute already.
InitThing ==
    /\ photo = [p \in Photos |-> NewPhoto]
    /\ db = photo
    /\ album_date = << >>
    /\ album_place = << >>
    /\ faces = << >>
    /\ persons = << >>
    /\ unsaved_runs = [p \in Photos |-> 0]
    /\ loaded_values = [p \in Photos |-> LoadedValues(db[p])]
    /\ media = NoMedia
    /\ thumbnails = {}
    /\ album_thing = [t \in {"wood"} |->
                        [photos |-> {"p2"},
                         thing_type |-> Some("places365_attribute")]]
    /\ worker = Idle
    /\ last = NoRun

RunReclassify ==
    \E answer \in Reclassifications, commit \in BOOLEAN :
        GenerateCaptions("p1", answer, commit, TRUE)

RunAddToAlbumThing == AddToAlbumThing("p1")

NextThing == RunReclassify \/ RunAddToAlbumThing \/ RunFromDb

SpecThing == InitThing /\ [][NextThing]_vars

\* The thing albums p is a member of.
AlbumThingsOf(albums, p) == {t \in DOMAIN albums : p \in albums[t].photos}

\* The elements of a sequence.
Range(seq) == {seq[i] : i \in DOMAIN seq}

(* C21: a run of the Album-by-Thing reconciliation changes no album when   *)
(* the caption bag has no scene-caption entry.  Otherwise the asset is     *)
(* afterwards a member of the album of every attribute and every category  *)
(* of the scene-caption result, it has joined no other album, every album  *)
(* it newly joined is tagged attribute when the string is an attribute of  *)
(* the result and category otherwise, no other album is touched, and a     *)
(* second run changes nothing.                                             *)
C21_ThingAlbumsOfSceneCaptions ==
    [][ last'.op = "add_to_album_thing" =>
        LET p == last'.p
            ph == photo[p]
            bag == ph.captions_json
            scene == IF bag = None THEN None ELSE Val(bag).places365
        IN  /\ last'.events[Len(last'.events)] = "cache_clear"
            /\ scene = None => album_thing' = album_thing
            /\ scene # None =>
               LET attributes == Range(Val(scene).attributes)
                   categories == Range(Val(scene).categories)
                   before == AlbumThingsOf(album_thing, p)
                   after == AlbumThingsOf(album_thing', p)
               IN  /\ after = before \cup attributes \cup categories
                   /\ \A t \in after \ before :
                        album_thing'[t].thing_type =
                            Some(IF t \in attributes THEN "places365_attribute"
                                 ELSE "places365_category")
                   /\ \A t \in DOMAIN album_thing :
                        /\ t \in DOMAIN album_thing'
                        /\ album_thing'[t].photos \ {p} = album_thing[t].photos \ {p}
                        /\ t \notin after \ before => album_thing'[t] = album_thing[t]
                   /\ DOMAIN album_thing' = DOMAIN album_thing \cup after
                   /\ AlbumThingsAfter(album_thing', photo'[p], p) = album_thing' ]_vars

\* A run that put the asset into the album another asset is in, and into a
\* new album whose string is both an attribute and a category.
C21_Witness ==
    /\ last.op = "add_to_album_thing"
    /\ album_thing["wood"].photos = {"p1", "p2"}
    /\ "beach" \in DOMAIN album_thing
    /\ album_thing["beach"] = [photos |-> {"p1"},
                               thing_type |-> Some("places365_attribute")]

(* C22: no scene-caption run and no Album-by-Thing reconciliation removes  *)
(* an Album-by-Thing membership, and a reconciliation adds the albums of   *)
(* the current result: after a reclassification it leaves the asset in the *)
(* albums of the old result and in those of the new one.                   *)
C22_ThingMembershipOnlyGrows ==
    [][ /\ \A p \in Photos :
             AlbumThingsOf(album_thing, p) \subseteq AlbumThingsOf(album_thing', p)
        /\ (last'.op = "add_to_album_thing" /\ HasPlaces365(photo[last'.p]))
           => LET res == Val(Val(photo[last'.p].captions_json).places365)
              IN  AlbumThingsOf(album_thing, last'.p)
                    \cup Range(res.attributes) \cup Range(res.categories)
                    \subseteq AlbumThingsOf(album_thing', last'.p) ]_vars

\* The asset, classified as a beach now, is in the albums of the kitchen it
\* was classified as before and in those of the beach.
C22_Witness ==
    /\ last.op = "add_to_album_thing"
    /\ HasPlaces365(photo["p1"])
    /\ Val(Val(photo["p1"].captions_json).places365).categories = <<"beach">>
    /\ AlbumThingsOf(album_thing, "p1") = {"kitchen", "wood", "beach"}

----------------------------------------------------------------------------
(* The sibling facets of one asset *)

NextFacets ==
    \/ RunGenerateCaptions
    \/ RunGenerateClipEmbeddings
    \/ RunGetDominantColor
    \/ RunFromDb

SpecFacets == InitOnce /\ [][NextFacets]_vars

\* The call of the service of each facet stage, as recorded by the stage.
ServiceCalls == {"places365", "embed", "palette"}

\* The last stage called its service and the service threw: the call is the
\* only thing the stage did and it ended in its except branch.
ServiceThrew(run) ==
    /\ run.op \in {"generate_captions", "generate_clip_embeddings",
                   "get_dominant_color"}
    /\ run.out = "error"
    /\ Len(run.events) = 1
    /\ run.events[1] \in ServiceCalls

(* C23: when the scene classifier, the embedding service or the palette    *)
(* computation throws, the stage returns (it ends in its except branch and *)
(* nothing is raised), and every facet of the asset, the one of the stage  *)
(* included, is as before the call, in memory and in the row.              *)
C23_ServiceFailureSkipsFacet ==
    [][ ServiceThrew(last') =>
        /\ last'.out # "raised"
        /\ photo'[last'.p] = photo[last'.p]
        /\ db' = db
        /\ photo' = photo ]_vars

\* The classifier threw on an asset that had a caption bag, a search text,
\* an embedding and a dominant color.
C23_Witness ==
    /\ ServiceThrew(last)
    /\ last.op = "generate_captions"
    /\ HasPlaces365(photo["p1"])
    /\ TruthySeq(photo["p1"].search_captions)
    /\ HasClipEmbeddings(photo["p1"])
    /\ HasDominantColor(photo["p1"])

----------------------------------------------------------------------------
(* The face stage run by two workers at once *)

\* What detection returns for the asset of a worker.
ParallelDetections == { << >>, <<BoxBase>>, <<BoxFarLeft>>, <<BoxBase, BoxFarTop>> }

\* Line 520-521: the worker's COUNT query on the "unknown" persons; its
\* answer decides the branch before any other statement of the worker runs.
CountUnknown(p) ==
    /\ worker[p].pc = "idle"
    /\ worker' = [worker EXCEPT ![p] =
                    [pc |-> IF Cardinality(UnknownPersons(persons)) = 0
                            THEN "create" ELSE "fetch"]]
    /\ last' = [op |-> "extract_faces", p |-> p, out |-> "running",
                events |-> <<"person_count">>]
    /\ UNCHANGED <<photo, db, album_date, album_place, faces, persons,
                   unsaved_runs, loaded_values, media, thumbnails, album_thing>>

\* Line 522-523: a new "unknown" Person is inserted.
CreateUnknown(p) ==
    /\ worker[p].pc = "create"
    /\ persons' = Append(persons, "unknown")
    /\ worker' = [worker EXCEPT ![p] =
                    [pc |-> "detect", unknown_person |-> Len(persons) + 1]]
    /\ last' = [op |-> "extract_faces", p |-> p, out |-> "running",
                events |-> <<"person_save">>]
    /\ UNCHANGED <<photo, db, album_date, album_place, faces, unsaved_runs,
                   loaded_values, media, thumbnails, album_thing>>

\* Line 524-525: qs_unknown_person[0], a second query; the queryset has no
\* ordering, so any of the rows may be the first.
FetchUnknown(p) ==
    /\ worker[p].pc = "fetch"
    /\ \E i \in UnknownPersons(persons) :
          worker' = [worker EXCEPT ![p] =
                        [pc |-> "detect", unknown_person |-> i]]
    /\ last' = [op |-> "extract_faces", p |-> p, out |-> "running",
                events |-> <<"person_fetch">>]
    /\ UNCHANGED <<photo, db, album_date, album_place, faces, persons,
                   unsaved_runs, loaded_values, media, thumbnails, album_thing>>

\* Line 526-586: detection, encoding and the loop that saves the faces of
\* this asset; the queries of the loop see the faces of this asset only.
DetectAndSave(p, face_locations) ==
    /\ worker[p].pc = "detect"
    /\ \E acc \in {SaveFaces([faces |-> faces, events |-> <<"detect", "encode">>],
                             face_locations, 1, p, worker[p].unknown_person)} :
          /\ faces' = acc.faces
          /\ last' = [op |-> "extract_faces", p |-> p, out |-> "done",
                      events |-> Append(acc.events, "cache_clear")]
    /\ worker' = [worker EXCEPT ![p] =
                    [pc |-> "done", unknown_person |-> worker[p].unknown_person]]
    /\ UNCHANGED <<photo, db, album_date, album_place, persons, unsaved_runs,
                   loaded_values, media, thumbnails, album_thing>>

\* No "unknown" Person and no Face yet.
InitParallel ==
    /\ photo = [p \in Photos |-> NewPhoto]
    /\ db = photo
    /\ album_date = << >>
    /\ album_place = << >>
    /\ persons = <<"alice">>
    /\ faces = << >>
    /\ unsaved_runs = [p \in Photos |-> 0]
    /\ loaded_values = [p \in Photos |-> LoadedValues(db[p])]
    /\ media = NoMedia
    /\ thumbnails = {}
    /\ album_thing = << >>
    /\ worker = Idle
    /\ last = NoRun

RunCountUnknown == \E p \in Photos : CountUnknown(p)

RunCreateUnknown == \E p \in Photos : CreateUnknown(p)

RunFetchUnknown == \E p \in Photos : FetchUnknown(p)

RunDetectAndSave ==
    \E p \in Photos, face_locations \in ParallelDetections :
        DetectAndSave(p, face_locations)

NextParallel ==
    \/ RunCountUnknown
    \/ RunCreateUnknown
    \/ RunFetchUnknown
    \/ RunDetectAndSave

SpecParallel == InitParallel /\ [][NextParallel]_vars

\* Both workers have finished their run.
BothDone == \A p \in Photos : worker[p].pc = "done"

(* C24 as claimed: when the face stage has run in parallel for two assets, *)
(* starting with no "unknown" Person, exactly one "unknown" Person exists  *)
(* and every Face created by either run is assigned to it.                 *)
C24_OneUnknownPerson ==
    BothDone =>
        /\ Cardinality(UnknownPersons(persons)) = 1
        /\ \A i \in DOMAIN faces : faces[i].person \in UnknownPersons(persons)

----------------------------------------------------------------------------
(* A failed reverse geocode and its retry *)

\* The run recorded in `last` was a failed reverse geocode on an asset that
\* has place albums and a cached result.  Such a run got past the
\* short-circuit of line 431-437, so its tags differ from the coordinates
\* the asset had, and the albums and the result are those of the old place.
FailedOnMovedAsset ==
    /\ GeolocateRan
    /\ last.out \in GeocodeFailures
    /\ last.pre # {}
    /\ TruthyDict(photo[last.p].geolocation_json)

(* C25 as claimed: when the reverse geocode fails on the run that first    *)
(* sees the changed coordinates of an asset with place albums and a cached *)
(* result, and the stage is run again with the same coordinate tags and a  *)
(* geocoder that does not fail, the re-run obtains the result of the new   *)
(* location and the asset's place albums are exactly the non-numeric       *)
(* feature labels of that result.                                          *)
C25_RetryAfterFailedGeocodeMigrates ==
    [][ ( /\ FailedOnMovedAsset
          /\ GeolocateRan'
          /\ last'.p = last.p
          /\ last'.lat = last.lat
          /\ last'.lon = last.lon
          /\ last'.out \notin GeocodeFailures )
        => /\ last'.out = "ok"
           /\ FindAlbumPlace(album_place', last'.p)
                = NonNumericLabels(Val(Val(photo'[last'.p].geolocation_json).features))
      ]_vars

----------------------------------------------------------------------------
(* The caption bag and the search text of the two caption stages *)

(* C26 as claimed: storing a scene-caption result changes only the         *)
(* scene-caption key of the caption bag; a neural caption stored earlier   *)
(* under its own key is still in the bag after _generate_captions.         *)
C26_SceneCaptionsKeepNeuralCaption ==
    [][ ( /\ last'.op = "generate_captions"
          /\ last'.out = "done"
          /\ photo[last'.p].captions_json # None )
        => Val(photo'[last'.p].captions_json).im2txt
             = Val(photo[last'.p].captions_json).im2txt ]_vars

(* C27 as claimed: when the neural-caption stage fails, it returns false   *)
(* without raising and the caption bag and the search text of the asset,   *)
(* in memory and in the row, are the same as before the call.              *)
C27_FailedNeuralCaptionKeepsState ==
    [][ ( /\ last'.op = "generate_captions_im2txt"
          /\ last'.out # "true" )
        => /\ last'.out = "false"
           /\ photo'[last'.p].captions_json = photo[last'.p].captions_json
           /\ photo'[last'.p].search_captions = photo[last'.p].search_captions
           /\ db'[last'.p].captions_json = db[last'.p].captions_json
           /\ db'[last'.p].search_captions = db[last'.p].search_captions ]_vars

\* The search text a row may hold when the caption stages first see it:
\* null, the empty string (the field may be blank), or a text.
PriorSearchCaptions == {None, Some(<< >>), Some(<<"sea">>)}

\* An asset whose row has a search text has a caption bag too.
InitSearchText ==
    /\ \E prior \in PriorSearchCaptions :
          photo = [p \in Photos |->
                     IF p = "p1" /\ prior # None
                     THEN [NewPhoto EXCEPT
                             !.search_captions = prior,
                             !.captions_json =
                                 Some([EmptyCaptions EXCEPT !.places365 =
                                     Some(Places365(<< >>, << >>, "outdoor"))])]
                     ELSE NewPhoto]
    /\ db = photo
    /\ album_date = << >>
    /\ album_place = << >>
    /\ faces = << >>
    /\ persons = << >>
    /\ unsaved_runs = [p \in Photos |-> 0]
    /\ loaded_values = [p \in Photos |-> LoadedValues(db[p])]
    /\ media = NoMedia
    /\ thumbnails = {}
    /\ album_thing = << >>
    /\ worker = Idle
    /\ last = NoRun

NextSearchText == RunGenerateCaptions \/ RunGenerateCaptionsIm2txt \/ RunFromDb

SpecSearchText == InitSearchText /\ [][NextSearchText]_vars

\* text is the words with one separator between neighbours.
IsSeparated(text, words) ==
    /\ Len(text) = 2 * Len(words) - 1
    /\ \A i \in 1..Len(words) : text[2 * i - 1] = words[i]
    /\ \A i \in 1..(Len(words) - 1) : text[2 * i] = Sep

\* text is what is left of raw without its markers and without the blanks
\* at either end, in lower case.
IsCleaned(text, raw) ==
    LET unmarked == SelectSeq(raw, LAMBDA t : t \notin {StartMarker, EndMarker})
        inked == {i \in 1..Len(unmarked) : unmarked[i] # Blank}
    IN  IF inked = {} THEN text = << >>
        ELSE LET first == CHOOSE i \in inked : \A j \in inked : i <= j
                 final == CHOOSE i \in inked : \A j \in inked : j <= i
             IN  /\ Len(text) = final - first + 1
                 /\ \A i \in 1..Len(text) :
                      text[i] = (IF unmarked[first + i - 1] = "A" THEN "a"
                                 ELSE unmarked[first + i - 1])

(* C28: after a successful scene-caption run the search text is the        *)
(* categories followed by the environment label, joined by the separator,  *)
(* when it was absent or empty before, and otherwise the previous text,    *)
(* the separator and that joined string.  After a successful               *)
(* neural-caption run it is the previous text immediately followed by the  *)
(* caption stored in the bag, which is a caption of the captioner with its *)
(* markers removed, trimmed and in lower case.                             *)
C28_SearchTextAfterCaptions ==
    [][ LET p == last'.p
            old == photo[p].search_captions
            new == Val(photo'[p].search_captions)
        IN  /\ (last'.op = "generate_captions" /\ last'.out = "done") =>
                LET res == Val(Val(photo'[p].captions_json).places365)
                    words == res.categories \o <<res.environment>>
                IN  IF old = None \/ old = Some(<< >>)
                    THEN IsSeparated(new, words)
                    ELSE /\ Len(new) = Len(Val(old)) + 2 * Len(words)
                         /\ SubSeq(new, 1, Len(Val(old))) = Val(old)
                         /\ new[Len(Val(old)) + 1] = Sep
                         /\ IsSeparated(SubSeq(new, Len(Val(old)) + 2, Len(new)),
                                        words)
            /\ (last'.op = "generate_captions_im2txt" /\ last'.out = "true") =>
                LET caption == Val(Val(photo'[p].captions_json).im2txt)
                IN  /\ old # None
                    /\ new = Val(old) \o caption
                    /\ \E answer \in Im2txtAnswers :
                         ~answer.raises /\ IsCleaned(caption, answer.caption)
      ]_vars

\* A text "sea" to which the scene-caption stage appended " , outdoor" and
\* the neural-caption stage "a dog".
C28_Witness ==
    /\ last.op = "generate_captions_im2txt"
    /\ last.out = "true"
    /\ photo["p1"].search_captions
         = Some(<<"sea", Sep, "outdoor", "a", Blank, "dog">>)

----------------------------------------------------------------------------
(* Tags that give no timestamp *)

(* C29: when no timestamp tag is present, or the tag used (the container   *)
(* tag when present, the primary tag otherwise) does not match the date    *)
(* pattern, a run of the Timestamp Resolver whose persist does not fail    *)
(* ends without raising: capture_time is absent afterwards, whatever it    *)
(* was before, and the asset is a member of the unknown-date album and of  *)
(* no dated album.                                                         *)
C29_NoTimestampMeansUnknownDate ==
    [][ ( /\ last.op = "tags"
          /\ last'.op = "extract_date_time"
          /\ ParsedAsUtc(last.exif, last.exifvideo) = None
          /\ \A i \in DOMAIN last'.events : last'.events[i] # "save_failed" )
        => /\ last'.out = "done"
           /\ photo'["p1"].exif_timestamp = None
           /\ AlbumDatesOf(album_date', "p1") = {None}
           /\ \A i \in DOMAIN last'.events :
                last'.events[i] = "save" => db'["p1"].exif_timestamp = None ]_vars

\* An asset that had a capture_time and was in the album of its day, after
\* a run that found no usable tag.
C29_Witness ==
    /\ last.op = "extract_date_time"
    /\ last.out = "done"
    /\ last.pre = {Some(1)}
    /\ photo["p1"].exif_timestamp = None
    /\ AlbumDatesOf(album_date, "p1") = {None}

----------------------------------------------------------------------------
(* A failed persist of the Timestamp Resolver and its retry *)

\* The asset as the failed run finds it: its albums agree with its
\* capture_time.
InitRetry ==
    \E c \in StoredCoords, before \in {<< >>, <<None>>, <<Some(HoursPerDay)>>} :
        /\ photo = [p \in Photos |->
                       [NewPhoto EXCEPT
                          !.exif_gps_lat = c, !.exif_gps_lon = c,
                          !.exif_timestamp =
                              IF before = << >> THEN None ELSE before[1]]]
        /\ db = photo
        /\ album_date = [k \in {DateKey(before[i]) : i \in DOMAIN before}
                            |-> {"p1"}]
        /\ album_place = << >>
        /\ faces = << >>
        /\ persons = << >>
        /\ unsaved_runs = [p \in Photos |-> 0]
        /\ loaded_values = [p \in Photos |-> LoadedValues(db[p])]
        /\ media = NoMedia
        /\ thumbnails = {}
        /\ album_thing = << >>
        /\ worker = Idle
        /\ last = NoRun

\* The run whose self.save() (line 417) raises.
RunFailedPersist ==
    /\ last.op = "none"
    /\ \E exif \in DateTags, exifvideo \in DateTags :
          ExtractDateTimeFromExif("p1", exif, exifvideo, TRUE, FALSE)

\* The scheduler's retry starts from the persisted row.
RunReload ==
    /\ last.op = "extract_date_time"
    /\ last.out = "raised"
    /\ FromDb("p1")

\* The retry, with whatever the tags are by then; its persist succeeds.
RunRetry ==
    /\ \/ last.op = "from_db"
       \/ last.out = "raised" /\ photo["p1"] = db["p1"]
    /\ \E exif \in DateTags, exifvideo \in DateTags :
          ExtractDateTimeFromExif("p1", exif, exifvideo, TRUE, TRUE)

NextRetry == RunFailedPersist \/ RunReload \/ RunRetry

SpecRetry == InitRetry /\ [][NextRetry]_vars

(* C30 as claimed: when the final persist of a Timestamp Resolver run      *)
(* fails after the album swap and the stage is retried from the persisted  *)
(* asset state, the asset is a member of exactly one Album-by-Date after   *)
(* the retry.                                                              *)
C30_OneAlbumDateAfterRetry ==
    (last.op = "extract_date_time" /\ last.out = "done")
    => Cardinality(AlbumDatesOf(album_date, "p1")) = 1

----------------------------------------------------------------------------
(* The level of a place album shared by several assets *)

\* The feature lists of the places the assets are at: they share labels at
\* different positions, and one has a label twice.
SharedFeatureLists == {FeaturesAB, FeaturesBC, FeaturesABC, FeaturesAA}

\* The latitudes of the tags: an asset is geolocated again when it moved.
MovedLatTags == {Some(1), Some(2)}

InitLevels ==
    /\ photo = [p \in Photos |-> NewPhoto]
    /\ db = photo
    /\ album_date = << >>
    /\ album_place = << >>
    /\ faces = << >>
    /\ persons = << >>
    /\ unsaved_runs = [p \in Photos |-> 0]
    /\ loaded_values = [p \in Photos |-> LoadedValues(db[p])]
    /\ media = NoMedia
    /\ thumbnails = {}
    /\ album_thing = << >>
    /\ worker = Idle
    /\ last = NoRun

\* Either asset is geolocated, one run after the other.
RunGeolocateEither ==
    \E p \in Photos, new_gps_lat \in MovedLatTags, fl \in SharedFeatureLists :
        Geolocate(p, new_gps_lat, Some(1),
                  [raises |-> FALSE, dict |-> GeoDict(Some(fl), None, None)],
                  TRUE)

NextLevels == RunGeolocateEither

SpecLevels == InitLevels /\ [][NextLevels]_vars

\* The level the feature list gives the album of title: N - i for the
\* 0-based position i of the first feature with that label.
LevelIn(features, title) ==
    Some(Len(features) - FirstPosition(features, title))

(* C31: a place album has one level, and a run that adds an asset to it    *)
(* overwrites that level with N - i of the run's own feature list, i being *)
(* the position of the first feature with the album's label, whatever the  *)
(* level was and whichever other assets are members; the albums the run    *)
(* does not add the asset to keep their level.  The level of an album      *)
(* shared by several assets is therefore that of the asset added last.     *)
C31_LevelOfLastAddedAsset ==
    [][ (GeolocateRan' /\ last'.out = "ok") =>
        LET features == Val(Val(photo'[last'.p].geolocation_json).features)
            joined == NonNumericLabels(features)
        IN  /\ \A title \in joined :
                 /\ last'.p \in album_place'[title].photos
                 /\ album_place'[title].geolocation_level = LevelIn(features, title)
            /\ \A title \in DOMAIN album_place \ joined :
                 album_place'[title].geolocation_level
                   = album_place[title].geolocation_level ]_vars

\* Album A has both assets; its level is the 2 of the list [A, A] of the
\* asset added last, not the 3 of the list [A, 7, B] of the other one.
C31_Witness ==
    /\ GeolocateRan /\ last.out = "ok" /\ last.p = "p2"
    /\ LabelA \in DOMAIN album_place
    /\ album_place[LabelA].photos = {"p1", "p2"}
    /\ CachedFeatures("p1") = FeaturesAB
    /\ CachedFeatures("p2") = FeaturesAA
    /\ album_place[LabelA].geolocation_level = LevelIn(FeaturesAA, LabelA)
    /\ album_place[LabelA].geolocation_level # LevelIn(FeaturesAB, LabelA)

\* The same assets and memberships reached in the other order: the level
\* is the 3 of the asset added last there.
C31_OtherOrder ==
    /\ GeolocateRan /\ last.out = "ok" /\ last.p = "p1"
    /\ LabelA \in DOMAIN album_place
    /\ album_place[LabelA].photos = {"p1", "p2"}
    /\ CachedFeatures("p1") = FeaturesAB
    /\ CachedFeatures("p2") = FeaturesAA
    /\ album_place[LabelA].geolocation_level = LevelIn(FeaturesAB, LabelA)

----------------------------------------------------------------------------
(* A file that carries both date tags *)

\* The date tags of the file of p, as get_metadata (line 369-373) returns
\* them: <<DateTimeOriginal, QuickTime CreateDate>>.
FileDateTags(p) == media[p]

\* The file of the asset has any pair of tags; the asset has any of the
\* stored coordinates and its albums agree with its capture_time.
InitBothTags ==
    \E c \in StoredCoords, before \in {<< >>, <<None>>, <<Some(HoursPerDay)>>},
       exif \in DateTags, exifvideo \in DateTags :
        /\ photo = [p \in Photos |->
                       [NewPhoto EXCEPT
                          !.exif_gps_lat = c, !.exif_gps_lon = c,
                          !.exif_timestamp =
                              IF before = << >> THEN None ELSE before[1]]]
        /\ db = photo
        /\ album_date = [k \in {DateKey(before[i]) : i \in DOMAIN before}
                            |-> {"p1"}]
        /\ album_place = << >>
        /\ faces = << >>
        /\ persons = << >>
        /\ unsaved_runs = [p \in Photos |-> 0]
        /\ loaded_values = [p \in Photos |-> LoadedValues(db[p])]
        /\ media = [p \in Photos |-> <<exif, exifvideo>>]
        /\ thumbnails = {}
        /\ album_thing = << >>
        /\ worker = Idle
        /\ last = NoRun

RunResolveFromFile ==
    \E commit \in BOOLEAN :
        \E persist_ok \in (IF commit THEN BOOLEAN ELSE {TRUE}) :
            ExtractDateTimeFromExif("p1", FileDateTags("p1")[1],
                                    FileDateTags("p1")[2], commit, persist_ok)

NextBothTags == RunResolveFromFile \/ RunFromDb

SpecBothTags == InitBothTags /\ [][NextBothTags]_vars

\* Both tags of the file of p are present (and not empty).
BothTagsPresent(p) ==
    TruthySeq(FileDateTags(p)[1]) /\ TruthySeq(FileDateTags(p)[2])

\* The hours the zone at the stored coordinates is ahead of UTC, 0 when
\* a coordinate is missing or zero or no zone is found.
ZoneOffset(ph) ==
    IF ph.exif_gps_lon \in {None, Some(0)} \/ ph.exif_gps_lat \in {None, Some(0)}
    THEN 0
    ELSE IF TimezoneAt(Val(ph.exif_gps_lon), Val(ph.exif_gps_lat)) = None THEN 0
    ELSE Val(TimezoneAt(Val(ph.exif_gps_lon), Val(ph.exif_gps_lat)))

(* C32: when the file carries both the original-capture tag and the        *)
(* container tag, capture_time after a run is determined by the container  *)
(* tag alone: absent when that tag does not match the pattern, otherwise   *)
(* its parsed value moved by the zone offset of the stored coordinates,    *)
(* whatever the original-capture tag parses to.                            *)
C32_ContainerTagWins ==
    (last.op = "extract_date_time" /\ BothTagsPresent(last.p))
    => LET parsed == Strptime(Val(FileDateTags(last.p)[2]))
       IN  photo[last.p].exif_timestamp
             = (IF parsed = None THEN None
                ELSE Some(Val(parsed) + ZoneOffset(photo[last.p])))

\* The original-capture tag parses to a time on day 1, the container tag
\* matches no pattern, and capture_time is absent after the run.
C32_Witness ==
    /\ last.op = "extract_date_time"
    /\ BothTagsPresent("p1")
    /\ Strptime(Val(FileDateTags("p1")[1])) = Some(HoursPerDay)
    /\ Strptime(Val(FileDateTags("p1")[2])) = None
    /\ photo["p1"].exif_timestamp = None
    /\ AlbumDatesOf(album_date, "p1") = {None}

====
